---- MODULE Spec2Model ----
(***************************************************************************)
(* A model of the hierarchical state machine runtime of src/101/hsm.c:     *)
(* machines bound to GLib main contexts, events posted with                *)
(* g_main_context_invoke, transitions with synthesized EXIT/ENTRY,         *)
(* bubbling to the parent machine, and one-shot timers.                    *)
(*                                                                         *)
(* Every thread has a call stack of frames.  A frame is one activation of  *)
(* hsm_process_post, hsm_change_state_internal, hsm_timer_source_cb or of  *)
(* a state handler; a handler is an arbitrary client program that calls    *)
(* the public API a bounded number of times and returns TRUE or FALSE.     *)
(***************************************************************************)
EXTENDS Integers, Sequences, FiniteSets, TLC

(* ------------------------------ bounds -------------------------------- *)

\* calls of hsm_post_event, hsm_change_state, hsm_schedule_timer and
\* hsm_register_state that the clients (main thread and handlers) make in a
\* run; hsm_cancel_timer is not counted, it changes something once per timer
\* at most
MaxCalls == 3

(* ----------------------------- universe ------------------------------- *)

NULL == "NULL"

\* the machine handles of a run: 1 is the child of 2
Hsms == {1, 2}

\* thread 0 is the main thread, thread 1 the worker hsm_start(1, TRUE) spawns;
\* machine 2 is driven by hsm_run on the main thread or not at all
MainThread == 0
Workers == {1}
Threads == {MainThread} \cup Workers
NoThread == -1

\* context 0 is g_main_context_default(), context m the private one of m
DefaultCtx == 0
Ctxs == {DefaultCtx} \cup Hsms
NoCtx == -1

\* state names handed to hsm_register_state in the construction phase
StateNames == {"A", "B"}

\* the handler functions and user_data handles of the clients; every state of
\* the construction phase is registered with FirstHandler
FirstHandler == 1
Handlers == {FirstHandler, 2}

\* no event value
NoEvent == [type |-> "", name |-> NULL, data |-> 0, source |-> NULL, seq |-> 0]

\* what callers hand to hsm_event_new: (type, name, data, source, seq)
EventInputs ==
    { [type |-> "STEP", name |-> NULL, data |-> 0, source |-> NULL, seq |-> 0],
      [type |-> "RESULT_OK", name |-> "done", data |-> 1, source |-> "child", seq |-> 7] }

\* the strings the client owns: buffer 1 holds an event name, buffer 2 a
\* source name; no HsmEvent exists yet and the payload object is untouched
CallerName == 1
CallerSource == 2
MemInit ==
    [str |-> <<[text |-> "done", frees |-> 0], [text |-> "child", frees |-> 0]>>,
     obj |-> <<>>,
     payload |-> [reads |-> 0, frees |-> 0]]

VARIABLES
    own,            \* own[h]: hsm_new's use_own_context
    name,           \* name[h]: h->name
    current_state,  \* h->current_state, NULL before the first transition
    states,         \* h->states: state name -> entry, for the registered names
    parent,         \* h->parent, 0 for none
    thread,         \* h->thread: TRUE once the worker was spawned
    timers,         \* h->timers: the ids in the table
    next_timer_id,  \* h->next_timer_id
    ctxOwner,       \* GMainContext owner thread of each context
    tdef,           \* the context each thread pushed as its thread default
    sources,        \* idle sources attached to each context, in attach order
    tsources,       \* timeout sources attached to each context
    tpc,            \* where each thread is outside of its call stack
    stack,          \* call stack of each thread
    events,         \* every HsmEvent ever allocated
    bufFrees,       \* g_free count of every string buffer ever allocated
    ncalls,         \* client calls counted against MaxCalls
    tlog,           \* per timer id: what happened to it
    elog,           \* per event: who posted it and what happened to it
    mainRun,        \* the machine the main thread called hsm_run on, 0 for none
    is_running,     \* is_running[h]: the flag of h->loop that g_main_loop_quit clears
    batch,          \* per thread: what is left of the loop iteration in progress
    freed,          \* the machines hsm_destroy has released
    released,       \* the machines whose current_state buffer is released and
                    \* not yet replaced
    stopped,        \* stopped[h]: who made the hsm_stop(h) that quit the loop
                    \* last run: "handler" of h, "other", "" for nobody
    mem,            \* the strings and HsmEvent objects of a client that uses
                    \* the event functions on their own
    recorded,       \* what the handlers of a scenario recorded, in order
    uctx            \* the context object a demo registers as user_data

vars == <<own, name, current_state, states, parent, thread, timers,
          next_timer_id, ctxOwner, tdef, sources, tsources, tpc, stack,
          events, bufFrees, ncalls, tlog, elog, mainRun,
          is_running, batch, freed, released, stopped, mem, recorded, uctx>>

(* ------------------------------ frames -------------------------------- *)

\* f: "post" hsm_process_post, "chg" hsm_change_state_internal,
\*    "tmr" hsm_timer_source_cb, "hdl" a state handler,
\*    "cancel" hsm_cancel_timer, "copy" hsm_get_state_copy,
\*    "destroy" hsm_destroy
\* by: for "chg", the thread that called hsm_change_state
\* fn, ud, syn: for "hdl", the handler called, its user_data, and the event
\*    handed to it when hsm_change_state_internal made it
\* gone: for "hdl", the state name it was passed points to a released buffer
Frame(f, h, ev, s, k, pc) ==
    [f |-> f, h |-> h, ev |-> ev, s |-> s, k |-> k, pc |-> pc,
     handled |-> FALSE, rel |-> FALSE, id |-> 0, by |-> NoThread,
     fn |-> 0, ud |-> 0, syn |-> NoEvent, gone |-> FALSE]

Top(t) == stack[t][Len(stack[t])]
Rest(t) == SubSeq(stack[t], 1, Len(stack[t]) - 1)
SetTop(t, fr) == Append(Rest(t), fr)

\* hsm_new: the context of a machine
ctx(h) == IF own[h] THEN h ELSE DefaultCtx

\* g_main_context_get_thread_default(), with the global default for none
EffDefault(t) == IF tdef[t] = NoCtx THEN DefaultCtx ELSE tdef[t]

\* the frames of thread t that are handler activations
HandlerFrames(t) == {i \in 1..Len(stack[t]) : stack[t][i].f = "hdl"}

(* ------------------------------ events -------------------------------- *)

\* hsm_event_new as event number e: name and source are g_strdup'ed into
\* fresh buffers (2e-1 and 2e), data is stored by handle
hsm_event_new(type, nm, data, source, seq, e) ==
    [type |-> type, name |-> nm, data |-> data, source |-> source, seq |-> seq,
     nameBuf |-> IF nm = NULL THEN 0 ELSE 2 * e - 1,
     srcBuf |-> IF source = NULL THEN 0 ELSE 2 * e]

\* a copy that keeps the original's string buffers
AliasingCopy(ev, e) ==
    [type |-> ev.type, name |-> ev.name, data |-> ev.data, source |-> ev.source,
     seq |-> ev.seq, nameBuf |-> ev.nameBuf, srcBuf |-> ev.srcBuf]

\* a copy that does not carry the sequence number over
LossyCopy(ev, e) ==
    hsm_event_new(ev.type, ev.name, ev.data, ev.source, 0, e)

\* the copy hsm_process_post makes for the parent, as event number e
BubbleCopy(ev, e) ==
    hsm_event_new(ev.type, ev.name, ev.data, ev.source, ev.seq, e)

\* g_free of the two strings of an event (g_free(NULL) does nothing)
FreeBufs(bf, ev) ==
    [b \in DOMAIN bf |->
        bf[b] + (IF b = ev.nameBuf THEN 1 ELSE 0) + (IF b = ev.srcBuf THEN 1 ELSE 0)]

\* the record kept about an event: its target, the thread that handed it over,
\* how (hsm_post_event by a client, a bubble, a timer), what it copies
NewLog(h, by, via, copyOf) ==
    [h |-> h, by |-> by, via |-> via, copyOf |-> copyOf,
     st |-> "posted", hcalls |-> 0, res |-> "", frees |-> 0]

(* ------------------------- g_main_context_invoke ---------------------- *)

\* an invoke that runs the function at once whenever no other thread owns the
\* context
InvokeWhenFree(t, c) ==
    IF ctxOwner[c] = t THEN "owner"
    ELSE IF ctxOwner[c] = NoThread THEN "acquire"
    ELSE "attach"

\* g_main_context_invoke runs the function at once when the caller owns the
\* context, or when the context is the caller's thread default and can be
\* acquired; otherwise it attaches an idle source
InvokeMode(t, c) ==
    IF ctxOwner[c] = t THEN "owner"
    ELSE IF EffDefault(t) = c /\ ctxOwner[c] = NoThread THEN "acquire"
    ELSE "attach"

\* thread t, whose stack is stk after the caller's own step, invokes frame fr
\* on context c
g_main_context_invoke(t, c, fr, stk) ==
    LET mode == InvokeMode(t, c) IN
    /\ stack' = [stack EXCEPT ![t] =
                    IF mode = "owner" THEN Append(stk, fr)
                    ELSE IF mode = "acquire" THEN Append(stk, [fr EXCEPT !.rel = TRUE])
                    ELSE stk]
    /\ ctxOwner' = IF mode = "acquire" THEN [ctxOwner EXCEPT ![c] = t] ELSE ctxOwner
    /\ sources' = IF mode = "attach" THEN [sources EXCEPT ![c] = Append(@, fr)]
                  ELSE sources

\* the frame on top of t's stack returns; a frame entered by acquiring the
\* context releases it
ReleaseOnReturn(t) ==
    IF Top(t).rel THEN [ctxOwner EXCEPT ![ctx(Top(t).h)] = NoThread] ELSE ctxOwner

(* ----------------------------- posting -------------------------------- *)

\* hsm_event_new followed by hsm_post_event(h, ev) on thread t: the dispatch
\* of ev is invoked on h's context
hsm_post_event(t, h, in, stk) ==
    LET e == Len(events) + 1 IN
    /\ events' = Append(events, hsm_event_new(in.type, in.name, in.data, in.source, in.seq, e))
    /\ bufFrees' = bufFrees \o <<0, 0>>
    /\ elog' = Append(elog, NewLog(h, t, "api", 0))
    /\ g_main_context_invoke(t, ctx(h), Frame("post", h, e, NULL, in.type, "lookup"), stk)

\* a post that counts against MaxCalls
PostNew(t, h, in, stk) ==
    /\ ncalls < MaxCalls
    /\ ncalls' = ncalls + 1
    /\ hsm_post_event(t, h, in, stk)

\* hsm_state_new: the entry of a state
hsm_state_new(f, u) == [handler |-> f, user_data |-> u]

\* the names registered on h
Registered(h) == DOMAIN states[h]

\* the state whose handler a dispatch on h reaches, NULL for none
Resolve(h, s) == IF s # NULL /\ s \in Registered(h) THEN s ELSE NULL

\* a call that hands a synthesized event to the parent's handler for s when
\* the parent has one
CallOnParent(h, e, s, k, syn) ==
    LET m == IF e = 0 /\ parent[h] # 0 /\ s \in Registered(parent[h])
             THEN parent[h] ELSE h
    IN [Frame("hdl", m, e, s, k, "run") EXCEPT !.fn = states[m][s].handler,
                                               !.ud = states[m][s].user_data,
                                               !.syn = syn]

\* st->handler(h, h->current_state, ev, st->user_data) for the entry of s;
\* e is the number of a posted event, syn an event made for this call only
HandlerCall(h, e, s, k, syn) ==
    [Frame("hdl", h, e, s, k, "run") EXCEPT !.fn = states[h][s].handler,
                                            !.ud = states[h][s].user_data,
                                            !.syn = syn]

(* ------------------------- hsm_process_post --------------------------- *)

\* the state h was seen in when event e was posted, where that was recorded
PostedIn(h, e) ==
    IF \E i \in 1..Len(recorded) : recorded[i][1] = e
    THEN (CHOOSE r \in {recorded[i] : i \in 1..Len(recorded)} : r[1] = e)[2]
    ELSE current_state[h]

\* a lookup of the state the event was posted in
LookupPosted(h, e) == Resolve(h, PostedIn(h, e))

\* lines 413-416: the entry of h->current_state, at the time of the dispatch
LookupCurrent(h, e) == Resolve(h, current_state[h])

\* lines 413-423: look the current state up and call its handler
ProcessPostLookup(t) ==
    /\ Len(stack[t]) > 0
    /\ Top(t).f = "post" /\ Top(t).pc = "lookup"
    /\ LET fr == Top(t)
           e == fr.ev
           st == LookupCurrent(fr.h, e)
       IN IF st # NULL
          THEN /\ stack' = [stack EXCEPT ![t] =
                      Append(SetTop(t, [fr EXCEPT !.pc = "bubble"]),
                             HandlerCall(fr.h, e, st, events[e].type, NoEvent))]
               /\ elog' = [elog EXCEPT ![e].st = "entered", ![e].hcalls = @ + 1]
          ELSE /\ stack' = [stack EXCEPT ![t] = SetTop(t, [fr EXCEPT !.pc = "bubble"])]
               /\ elog' = [elog EXCEPT ![e].st = "returned", ![e].res = "none"]
    /\ UNCHANGED <<uctx, recorded, mem, own, name, current_state, states, parent, thread, timers,
                   next_timer_id, ctxOwner, tdef, sources, tsources, tpc,
                   events, bufFrees, ncalls, tlog, mainRun,
                   is_running, batch, freed, released, stopped>>

\* bubbles whatever the handler returned
BubbleAlways(handled, p) == p # 0

\* line 425: an event that was not handled bubbles when a parent is set
ShouldBubble(handled, p) == ~handled /\ p # 0

\* lines 425-436: an unhandled event is copied and the copy invoked on the
\* parent's context; otherwise the event is freed and the dispatch returns
ProcessPostBubble(t) ==
    /\ Len(stack[t]) > 0
    /\ Top(t).f = "post" /\ Top(t).pc = "bubble"
    /\ LET fr == Top(t)
           e == fr.ev
           p == parent[fr.h]
           c == Len(events) + 1
       IN IF ShouldBubble(fr.handled, p)
          THEN /\ events' = Append(events, BubbleCopy(events[e], c))
               /\ bufFrees' = bufFrees \o <<0, 0>>
               /\ elog' = Append(elog, NewLog(p, t, "bubble", e))
               /\ g_main_context_invoke(t, ctx(p),
                      Frame("post", p, c, NULL, events[e].type, "lookup"),
                      SetTop(t, [fr EXCEPT !.pc = "free"]))
          ELSE /\ bufFrees' = FreeBufs(bufFrees, events[e])
               /\ elog' = [elog EXCEPT ![e].frees = @ + 1, ![e].st = "freed"]
               /\ stack' = [stack EXCEPT ![t] = Rest(t)]
               /\ ctxOwner' = ReleaseOnReturn(t)
               /\ UNCHANGED <<events, sources>>
    /\ UNCHANGED <<uctx, recorded, mem, own, name, current_state, states, parent, thread, timers,
                   next_timer_id, tdef, tsources, tpc, ncalls, tlog, mainRun,
                   is_running, batch, freed, released, stopped>>

\* lines 432, 438-439: the original is freed after the copy was posted
ProcessPostFree(t) ==
    /\ Len(stack[t]) > 0
    /\ Top(t).f = "post" /\ Top(t).pc = "free"
    /\ LET e == Top(t).ev IN
       /\ bufFrees' = FreeBufs(bufFrees, events[e])
       /\ elog' = [elog EXCEPT ![e].frees = @ + 1, ![e].st = "freed"]
    /\ stack' = [stack EXCEPT ![t] = Rest(t)]
    /\ ctxOwner' = ReleaseOnReturn(t)
    /\ UNCHANGED <<uctx, recorded, mem, own, name, current_state, states, parent, thread, timers,
                   next_timer_id, tdef, sources, tsources, tpc, events,
                   ncalls, tlog, mainRun,
                   is_running, batch, freed, released, stopped>>

(* --------------------------- transitions ------------------------------ *)

\* a transition that always runs on the calling thread
OnTargetContextAlways(t, h) == TRUE

\* line 311: g_main_context_get_thread_default() == h->context.  A thread that
\* pushed the default context has NULL as its thread default.
OnTargetContext(t, h) == tdef[t] = ctx(h)

\* the transition to ns that thread t asks of h: the arguments of
\* a request that goes straight to the commit, without the EXIT call
SkipExit(t, h, ns) == [Frame("chg", h, 0, ns, "", "commit") EXCEPT !.by = t]

\* hsm_change_state_internal, carried by a ChangeReq when the call is invoked
ChangeReq(t, h, ns) == [Frame("chg", h, 0, ns, "", "start") EXCEPT !.by = t]

\* hsm_change_state(h, ns) on thread t, whose stack is stk after its own step
hsm_change_state(t, h, ns, stk) ==
    IF OnTargetContext(t, h)
    THEN /\ stack' = [stack EXCEPT ![t] = Append(stk, ChangeReq(t, h, ns))]
         /\ UNCHANGED <<ctxOwner, sources>>
    ELSE g_main_context_invoke(t, ctx(h), ChangeReq(t, h, ns), stk)

\* a synthesized event that names its kind and counts as event 1
NamedEvent(kind, h) ==
    [type |-> kind, name |-> kind, data |-> 0, source |-> name[h], seq |-> 1]

\* lines 286 and 299: hsm_event_new(kind, NULL, NULL, h->name, 0)
SynthEvent(kind, h) ==
    [type |-> kind, name |-> NULL, data |-> 0, source |-> name[h], seq |-> 0]

\* a comparison that never finds the target equal to the current state
NeverSame(cur, ns) == FALSE

\* line 278: g_strcmp0(h->current_state, new_state) == 0
SameState(cur, ns) == cur = ns

\* lines 278-290: nothing to do for the same state, the function returns (the
\* frame is marked "same"); else EXIT to the old state
ChangeStart(t) ==
    /\ Len(stack[t]) > 0
    /\ Top(t).f = "chg" /\ Top(t).pc = "start"
    /\ LET fr == Top(t)
           old == Resolve(fr.h, current_state[fr.h])
       IN IF SameState(current_state[fr.h], fr.s)
          THEN /\ stack' = [stack EXCEPT ![t] =
                      SetTop(t, [fr EXCEPT !.pc = "done", !.k = "same"])]
               /\ UNCHANGED ctxOwner
          ELSE IF old # NULL
          THEN /\ stack' = [stack EXCEPT ![t] =
                      Append(SetTop(t, [fr EXCEPT !.pc = "commit"]),
                             HandlerCall(fr.h, 0, old, "EXIT", SynthEvent("EXIT", fr.h)))]
               /\ UNCHANGED ctxOwner
          ELSE /\ stack' = [stack EXCEPT ![t] = SetTop(t, [fr EXCEPT !.pc = "commit"])]
               /\ UNCHANGED <<ctxOwner>>
    /\ UNCHANGED <<uctx, recorded, mem, own, name, current_state, states, parent, thread, timers,
                   next_timer_id, tdef, sources, tsources, tpc, events,
                   bufFrees, ncalls, tlog, elog, mainRun,
                   is_running, batch, freed, released, stopped>>

\* a lookup that falls back to state "A" for a name that is not registered
EntryFallback(h, ns) ==
    IF ns \in Registered(h) THEN ns
    ELSE IF "A" \in Registered(h) THEN "A" ELSE NULL

\* line 297: g_hash_table_lookup(h->states, new_state), NULL for no entry
EntryOf(h, ns) == Resolve(h, ns)

\* line 293: g_free(h->current_state).  Every handler of h was passed
\* h->current_state itself as its state name (lines 287, 299, 422), so the
\* calls of handlers of h that are in progress hold a released buffer from
\* here on
NameReleased(stks, h) ==
    IF current_state[h] = NULL THEN stks
    ELSE [u \in DOMAIN stks |->
            [i \in 1..Len(stks[u]) |->
                IF stks[u][i].f = "hdl" /\ stks[u][i].h = h
                THEN [stks[u][i] EXCEPT !.gone = TRUE]
                ELSE stks[u][i]]]

\* lines 293-302: the old name is released, h->current_state is set to a copy
\* of the new name, then ENTRY to the new state if it is registered
Commit(t) ==
    LET fr == Top(t)
        stks == NameReleased(stack, fr.h)
        below == SubSeq(stks[t], 1, Len(stks[t]) - 1)
    IN
    /\ current_state' = [current_state EXCEPT ![fr.h] = fr.s]
    /\ released' = released \ {fr.h}
    /\ IF EntryOf(fr.h, fr.s) # NULL
       THEN /\ stack' = [stks EXCEPT ![t] =
                   Append(Append(below, [fr EXCEPT !.pc = "done"]),
                          HandlerCall(fr.h, 0, EntryOf(fr.h, fr.s), "ENTRY",
                                      SynthEvent("ENTRY", fr.h)))]
            /\ UNCHANGED ctxOwner
       ELSE /\ stack' = [stks EXCEPT ![t] = below]
            /\ ctxOwner' = ReleaseOnReturn(t)
    /\ UNCHANGED <<uctx, recorded, mem, own, name, states, parent, thread, timers, next_timer_id,
                   tdef, sources, tsources, tpc, events, bufFrees, ncalls, tlog, elog, mainRun,
                   is_running, batch, freed, stopped>>

\* lines 292-302 as one step: nothing else reads h->current_state meanwhile
ChangeCommit(t) ==
    /\ Len(stack[t]) > 0
    /\ Top(t).f = "chg" /\ Top(t).pc = "commit"
    /\ Commit(t)

\* line 293 on its own: g_free(h->current_state); the field keeps pointing to
\* the released buffer until line 294
ChangeFree(t) ==
    /\ Len(stack[t]) > 0
    /\ Top(t).f = "chg" /\ Top(t).pc = "commit"
    /\ released' = IF current_state[Top(t).h] # NULL
                   THEN released \cup {Top(t).h} ELSE released
    /\ stack' = [NameReleased(stack, Top(t).h) EXCEPT ![t] =
                    Append(SubSeq(@, 1, Len(@) - 1), [Top(t) EXCEPT !.pc = "assign"])]
    /\ UNCHANGED <<uctx, recorded, mem, own, name, current_state, states, parent, thread, timers,
                   next_timer_id, ctxOwner, tdef, sources, tsources, tpc, events,
                   bufFrees, ncalls, tlog, elog, mainRun, is_running, batch, freed, stopped>>

\* lines 294-302 after line 293
ChangeAssign(t) ==
    /\ Len(stack[t]) > 0
    /\ Top(t).f = "chg" /\ Top(t).pc = "assign"
    /\ Commit(t)

\* lines 279 and 303: hsm_change_state_internal returns
ChangeDone(t) ==
    /\ Len(stack[t]) > 0
    /\ Top(t).f = "chg" /\ Top(t).pc = "done"
    /\ stack' = [stack EXCEPT ![t] = Rest(t)]
    /\ ctxOwner' = ReleaseOnReturn(t)
    /\ UNCHANGED <<uctx, recorded, mem, own, name, current_state, states, parent, thread, timers,
                   next_timer_id, tdef, sources, tsources, tpc, events,
                   bufFrees, ncalls, tlog, elog, mainRun,
                   is_running, batch, freed, released, stopped>>

(* ----------------------------- handlers ------------------------------- *)

InHandler(t) == Len(stack[t]) > 0 /\ Top(t).f = "hdl"

\* a handler posts a new event to any machine
HandlerPostEvent(t, h, in) ==
    /\ InHandler(t)
    /\ PostNew(t, h, in, stack[t])
    /\ UNCHANGED <<uctx, recorded, mem, own, name, current_state, states, parent, thread, timers,
                   next_timer_id, tdef, tsources, tpc, tlog, mainRun,
                   is_running, batch, freed, released, stopped>>

\* a handler calls hsm_change_state on any machine
HandlerChangeState(t, h, ns) ==
    /\ InHandler(t)
    /\ ncalls < MaxCalls
    /\ ncalls' = ncalls + 1
    /\ hsm_change_state(t, h, ns, stack[t])
    /\ UNCHANGED <<uctx, recorded, mem, own, name, current_state, states, parent, thread, timers,
                   next_timer_id, tdef, tsources, tpc, events, bufFrees, tlog, elog, mainRun,
                   is_running, batch, freed, released, stopped>>

\* a handler returns b; only hsm_process_post reads the result (line 422)
HandlerReturn(t, b) ==
    /\ InHandler(t)
    /\ LET fr == Top(t)
           caller == stack[t][Len(stack[t]) - 1]
       IN /\ stack' = [stack EXCEPT ![t] =
                 Append(SubSeq(stack[t], 1, Len(stack[t]) - 2),
                        IF caller.f = "post" THEN [caller EXCEPT !.handled = b]
                        ELSE caller)]
          /\ elog' = IF caller.f = "post"
                     THEN [elog EXCEPT ![fr.ev].st = "returned",
                                       ![fr.ev].res = IF b THEN "true" ELSE "false"]
                     ELSE elog
    /\ UNCHANGED <<uctx, recorded, mem, own, name, current_state, states, parent, thread, timers,
                   next_timer_id, ctxOwner, tdef, sources, tsources, tpc,
                   events, bufFrees, ncalls, tlog, mainRun,
                   is_running, batch, freed, released, stopped>>

(* ------------------------------ threads ------------------------------- *)

\* the machine whose loop thread t runs, and the context of that loop
LoopHsm(t) == IF t = MainThread THEN mainRun ELSE t
LoopCtx(t) == ctx(LoopHsm(t))

\* no iteration in progress
NoBatch == [n |-> 0, ts |-> {}]

\* g_main_context_push_thread_default(c) on thread t: the context is acquired,
\* and nothing is pushed when another thread owns it; pushing the default
\* context pushes NULL
PushOwner(t, c) ==
    IF ctxOwner[c] \in {NoThread, t} THEN [ctxOwner EXCEPT ![c] = t] ELSE ctxOwner
PushDefault(t, c) ==
    IF ctxOwner[c] \in {NoThread, t} /\ c # DefaultCtx THEN [tdef EXCEPT ![t] = c]
    ELSE tdef

MainIdle == tpc[MainThread] = "script" /\ stack[MainThread] = <<>>

\* the main thread posts a new event
MainPostEvent(h, in) ==
    /\ MainIdle
    /\ PostNew(MainThread, h, in, <<>>)
    /\ UNCHANGED <<uctx, recorded, mem, own, name, current_state, states, parent, thread, timers,
                   next_timer_id, tdef, tsources, tpc, tlog, mainRun,
                   is_running, batch, freed, released, stopped>>

\* the main thread calls hsm_change_state
MainChangeState(h, ns) ==
    /\ MainIdle
    /\ ncalls < MaxCalls
    /\ ncalls' = ncalls + 1
    /\ hsm_change_state(MainThread, h, ns, <<>>)
    /\ UNCHANGED <<uctx, recorded, mem, own, name, current_state, states, parent, thread, timers,
                   next_timer_id, tdef, tsources, tpc, events, bufFrees, tlog, elog, mainRun,
                   is_running, batch, freed, released, stopped>>

\* hsm_start(h, TRUE): the worker is spawned once
hsm_start(h) ==
    /\ MainIdle
    /\ IF ~thread[h]
       THEN /\ thread' = [thread EXCEPT ![h] = TRUE]
            /\ tpc' = [tpc EXCEPT ![h] = "push"]
       ELSE UNCHANGED <<thread, tpc>>
    /\ UNCHANGED <<uctx, recorded, mem, own, name, current_state, states, parent, timers,
                   next_timer_id, ctxOwner, tdef, sources, tsources, stack,
                   events, bufFrees, ncalls, tlog, elog, mainRun,
                   is_running, batch, freed, released, stopped>>

\* hsm_thread_func lines 348-349: the worker pushes the machine's context
hsm_thread_func(m) ==
    /\ tpc[m] = "push"
    /\ ctxOwner' = PushOwner(m, ctx(m))
    /\ tdef' = PushDefault(m, ctx(m))
    /\ tpc' = [tpc EXCEPT ![m] = "run"]
    /\ UNCHANGED <<uctx, recorded, mem, own, name, current_state, states, parent, thread, timers,
                   next_timer_id, sources, tsources, stack, events, bufFrees, ncalls, tlog, elog, mainRun,
                   is_running, batch, freed, released, stopped>>

\* hsm_run(h) lines 376-377 on the main thread
hsm_run(h) ==
    /\ MainIdle
    /\ ctxOwner' = PushOwner(MainThread, ctx(h))
    /\ tdef' = PushDefault(MainThread, ctx(h))
    /\ tpc' = [tpc EXCEPT ![MainThread] = "run"]
    /\ mainRun' = h
    /\ UNCHANGED <<uctx, recorded, mem, own, name, current_state, states, parent, thread, timers,
                   next_timer_id, sources, tsources, stack, events, bufFrees, ncalls, tlog, elog,
                   is_running, batch, freed, released, stopped>>

\* g_main_loop_run(h->loop): the flag of the loop is set, and the thread
\* iterates once it owns the context; it waits when another thread owns it
g_main_loop_run(t) ==
    /\ tpc[t] = "run"
    /\ is_running' = [is_running EXCEPT ![LoopHsm(t)] = TRUE]
    /\ stopped' = [stopped EXCEPT ![LoopHsm(t)] = ""]
    /\ IF ctxOwner[LoopCtx(t)] \in {NoThread, t}
       THEN /\ ctxOwner' = [ctxOwner EXCEPT ![LoopCtx(t)] = t]
            /\ tpc' = [tpc EXCEPT ![t] = "loop"]
       ELSE /\ tpc' = [tpc EXCEPT ![t] = "wait"]
            /\ UNCHANGED ctxOwner
    /\ UNCHANGED <<uctx, recorded, mem, own, name, current_state, states, parent, thread, timers,
                   next_timer_id, tdef, sources, tsources, stack, events,
                   bufFrees, ncalls, tlog, elog, mainRun, batch, freed, released>>

\* the thread waiting in g_main_loop_run gets the context once it is free, as
\* long as the loop was not quit
LoopWait(t) ==
    /\ tpc[t] = "wait"
    /\ is_running[LoopHsm(t)]
    /\ ctxOwner[LoopCtx(t)] = NoThread
    /\ ctxOwner' = [ctxOwner EXCEPT ![LoopCtx(t)] = t]
    /\ tpc' = [tpc EXCEPT ![t] = "loop"]
    /\ UNCHANGED <<uctx, recorded, mem, own, name, current_state, states, parent, thread, timers,
                   next_timer_id, tdef, sources, tsources, stack, events,
                   bufFrees, ncalls, tlog, elog, mainRun,
                   is_running, batch, freed, released, stopped>>

\* an idle source that stays attached after its callback was called
IdleRepeat(q) == q

\* hsm_process_post and hsm_change_state_invoke_cb return G_SOURCE_REMOVE
\* (lines 439 and 336): the idle source is detached when it is dispatched
IdleRemove(q) == Tail(q)

\* the loop dispatches the oldest idle source of its context.  An iteration
\* dispatches every source that was ready when it began, and the flag of the
\* loop is tested between iterations: the idle sources attached when the
\* iteration began are dispatched whatever the flag, and so may the timeout
\* sources attached at that time.
DispatchIdle(t) ==
    /\ tpc[t] = "loop"
    /\ stack[t] = <<>>
    /\ sources[LoopCtx(t)] # <<>>
    /\ IF batch[t].n > 0
       THEN batch' = [batch EXCEPT ![t].n = @ - 1]
       ELSE /\ is_running[LoopHsm(t)]
            /\ batch' = [batch EXCEPT ![t] =
                   [n |-> Len(sources[LoopCtx(t)]) - 1, ts |-> tsources[LoopCtx(t)]]]
    /\ stack' = [stack EXCEPT ![t] = <<Head(sources[LoopCtx(t)])>>]
    /\ sources' = [sources EXCEPT ![LoopCtx(t)] = IdleRemove(@)]
    /\ UNCHANGED <<uctx, recorded, mem, own, name, current_state, states, parent, thread, timers,
                   next_timer_id, ctxOwner, tdef, tsources, tpc, events,
                   bufFrees, ncalls, tlog, elog, mainRun,
                   is_running, freed, released, stopped>>

(* --------------------------- specification ---------------------------- *)

\* the state after the construction phase of a demo main: hsm_new for the two
\* machines, hsm_register_state for every state name, hsm_set_parent(1, 2)
Init ==
    /\ own \in [Hsms -> BOOLEAN]
    /\ name = [h \in Hsms |-> IF h = 1 THEN "child" ELSE "root"]
    /\ current_state = [h \in Hsms |-> NULL]
    /\ states = [h \in Hsms |-> [n \in StateNames |-> hsm_state_new(FirstHandler, h)]]
    /\ parent = [h \in Hsms |-> IF h = 1 THEN 2 ELSE 0]
    /\ thread = [h \in Hsms |-> FALSE]
    /\ timers = [h \in Hsms |-> {}]
    /\ next_timer_id = [h \in Hsms |-> 1]
    /\ ctxOwner = [c \in Ctxs |-> NoThread]
    /\ tdef = [t \in Threads |-> NoCtx]
    /\ sources = [c \in Ctxs |-> <<>>]
    /\ tsources = [c \in Ctxs |-> {}]
    /\ tpc = [t \in Threads |-> IF t = MainThread THEN "script" ELSE "idle"]
    /\ stack = [t \in Threads |-> <<>>]
    /\ events = <<>>
    /\ bufFrees = <<>>
    /\ ncalls = 0
    /\ tlog = <<>>
    /\ elog = <<>>
    /\ mainRun = 0
    /\ is_running = [h \in Hsms |-> FALSE]
    /\ batch = [t \in Threads |-> NoBatch]
    /\ freed = {}
    /\ released = {}
    /\ stopped = [h \in Hsms |-> ""]
    /\ mem = MemInit
    /\ recorded = <<>>
    /\ uctx = <<>>

Next ==
    \/ \E h \in Hsms, in \in EventInputs : MainPostEvent(h, in)
    \/ \E h \in Hsms, ns \in StateNames : MainChangeState(h, ns)
    \/ \E h \in Workers : hsm_start(h)
    \/ \E h \in Hsms : hsm_run(h)
    \/ \E m \in Workers : hsm_thread_func(m)
    \/ \E t \in Threads : g_main_loop_run(t)
    \/ \E t \in Threads : LoopWait(t)
    \/ \E t \in Threads : DispatchIdle(t)
    \/ \E t \in Threads : ProcessPostLookup(t)
    \/ \E t \in Threads : ProcessPostBubble(t)
    \/ \E t \in Threads : ProcessPostFree(t)
    \/ \E t \in Threads : ChangeStart(t)
    \/ \E t \in Threads : ChangeCommit(t)
    \/ \E t \in Threads : ChangeDone(t)
    \/ \E t \in Threads, h \in Hsms, in \in EventInputs : HandlerPostEvent(t, h, in)
    \/ \E t \in Threads, h \in Hsms, ns \in StateNames : HandlerChangeState(t, h, ns)
    \/ \E t \in Threads, b \in BOOLEAN : HandlerReturn(t, b)

Spec == Init /\ [][Next]_vars

(* ------------------------------ timers -------------------------------- *)

\* a timeout source: the TimerCtx {h, timer_id} its callback gets
TimerSrc(h, id) == [h |-> h, id |-> id]

\* the record kept about a timer: whether its source was dispatched, whether a
\* hsm_cancel_timer for it returned TRUE ("before" or "after" the dispatch
\* began) and on which thread, and whether one returned FALSE while it was
\* scheduled, not dispatched and not cancelled
NewTimer(h, id) ==
    [h |-> h, id |-> id, fired |-> FALSE, canc |-> "", cby |-> NoThread,
     refused |-> FALSE]

\* what hsm_cancel_timer(h, id) returning hit on thread t adds to the timer
\* records
MarkCancel(t, h, id, hit) ==
    [k \in 1..Len(tlog) |->
        IF tlog[k].h = h /\ tlog[k].id = id
        THEN IF hit
             THEN IF tlog[k].canc # "" THEN tlog[k]
                  ELSE [tlog[k] EXCEPT
                           !.canc = IF tlog[k].fired THEN "after" ELSE "before",
                           !.cby = t]
             ELSE [tlog[k] EXCEPT !.refused = @ \/ (~tlog[k].fired /\ tlog[k].canc = "")]
        ELSE tlog[k]]

\* the sources attached to any context
AllSources == UNION {tsources[c] : c \in Ctxs}

\* the callback of the timer is running on some thread
Dispatching(h, id) ==
    \E t \in Threads : \E i \in 1..Len(stack[t]) :
        stack[t][i].f = "tmr" /\ stack[t][i].h = h /\ stack[t][i].id = id

\* the GSource of the timer is allocated: the context holds the only reference
\* (line 497 drops the creator's), until the source is destroyed or its
\* callback has returned G_SOURCE_REMOVE
Alive(h, id) == TimerSrc(h, id) \in tsources[ctx(h)] \/ Dispatching(h, id)

\* a source that stays attached when it is destroyed
LeakSource(ts, c, src) == ts

\* g_source_destroy of a live source detaches it from its context
g_source_destroy(ts, c, src) == [ts EXCEPT ![c] = @ \ {src}]

\* a source that stays attached after its callback was called
RepeatingSource(ts, c, src) == ts

\* the callback returns G_SOURCE_REMOVE (line 479): the source is dispatched
\* once and detached
SourceRemove(ts, c, src) == [ts EXCEPT ![c] = @ \ {src}]

\* line 513 on the handle found in the table: a live source is detached; a
\* released handle is a use after free, which does nothing or hits a source
\* that was allocated in its place
DestroyOutcomes(h, id) ==
    IF Alive(h, id)
    THEN {g_source_destroy(tsources, ctx(h), TimerSrc(h, id))}
    ELSE {tsources} \cup
         {g_source_destroy(tsources, ctx(v.h), v) : v \in AllSources}

\* lines 507-510 and 516: hsm_cancel_timer(h, id) returns TRUE exactly when the
\* lookup finds id in the table
CancelResult(h, id) == id \in timers[h]

\* gint is a 32-bit signed int
IntMax == 2147483647
IntMin == -IntMax - 1

\* line 488, ++h->next_timer_id: the next value; at IntMax the increment
\* overflows, which is undefined: the value wraps or is any other gint
PreIncrement(v) == IF v < IntMax THEN {v + 1} ELSE {IntMin, 0, IntMax}

\* hsm_schedule_timer(h, ms) lines 488-499
hsm_schedule_timer(h) ==
    \E tid \in PreIncrement(next_timer_id[h]) :
       /\ next_timer_id' = [next_timer_id EXCEPT ![h] = tid]
       /\ tsources' = [tsources EXCEPT ![ctx(h)] = @ \cup {TimerSrc(h, tid)}]
       /\ timers' = [timers EXCEPT ![h] = @ \cup {tid}]
       /\ tlog' = Append(tlog, NewTimer(h, tid))

\* hsm_schedule_timer(h, ms) called by a handler running on h's context
HandlerScheduleTimer(t, h) ==
    /\ InHandler(t)
    /\ ctx(h) = ctx(Top(t).h)
    /\ ncalls < MaxCalls
    /\ ncalls' = ncalls + 1
    /\ hsm_schedule_timer(h)
    /\ UNCHANGED <<uctx, recorded, mem, own, name, current_state, states, parent, thread, ctxOwner,
                   tdef, sources, tpc, stack, events, bufFrees, elog, mainRun,
                   is_running, batch, freed, released, stopped>>

\* a cancel that destroys the source and leaves its id in the table
CancelKeepsId(t, h, id) ==
    IF CancelResult(h, id)
    THEN /\ tsources' \in DestroyOutcomes(h, id)
         /\ tlog' = MarkCancel(t, h, id, TRUE)
         /\ UNCHANGED timers
    ELSE /\ tlog' = MarkCancel(t, h, id, FALSE)
         /\ UNCHANGED <<tsources, timers>>

\* hsm_cancel_timer(h, id) lines 507-516 on thread t
hsm_cancel_timer(t, h, id) ==
    IF CancelResult(h, id)
    THEN /\ tsources' \in DestroyOutcomes(h, id)
         /\ timers' = [timers EXCEPT ![h] = @ \ {id}]
         /\ tlog' = MarkCancel(t, h, id, TRUE)
    ELSE /\ tlog' = MarkCancel(t, h, id, FALSE)
         /\ UNCHANGED <<tsources, timers>>

\* hsm_cancel_timer(h, id) called by a handler running on h's context
HandlerCancelTimer(t, h, id) ==
    /\ InHandler(t)
    /\ ctx(h) = ctx(Top(t).h)
    /\ hsm_cancel_timer(t, h, id)
    /\ UNCHANGED <<uctx, recorded, mem, own, name, current_state, states, parent, thread,
                   next_timer_id, ctxOwner, tdef, sources, tpc, stack, events,
                   bufFrees, ncalls, elog, mainRun,
                   is_running, batch, freed, released, stopped>>

\* the loop of thread t finds the timeout of a source of its context elapsed
\* and calls hsm_timer_source_cb, in the iteration in progress or in a new one
TimerDispatch(t, src) ==
    /\ tpc[t] = "loop"
    /\ stack[t] = <<>>
    /\ src \in tsources[LoopCtx(t)]
    /\ \/ /\ src \in batch[t].ts
          /\ batch' = [batch EXCEPT ![t].ts = @ \ {src}]
       \/ /\ batch[t].n = 0
          /\ is_running[LoopHsm(t)]
          /\ batch' = [batch EXCEPT ![t] =
                 [n |-> Len(sources[LoopCtx(t)]), ts |-> tsources[LoopCtx(t)] \ {src}]]
    /\ tsources' = SourceRemove(tsources, LoopCtx(t), src)
    /\ stack' = [stack EXCEPT ![t] =
          <<[Frame("tmr", src.h, 0, NULL, "", "post") EXCEPT !.id = src.id]>>]
    /\ tlog' = [k \in 1..Len(tlog) |->
                   IF tlog[k].h = src.h /\ tlog[k].id = src.id
                   THEN [tlog[k] EXCEPT !.fired = TRUE] ELSE tlog[k]]
    /\ UNCHANGED <<uctx, recorded, mem, own, name, current_state, states, parent, thread, timers,
                   next_timer_id, ctxOwner, tdef, sources, tpc, events,
                   bufFrees, ncalls, elog, mainRun,
                   is_running, freed, released, stopped>>

\* line 472: the TIMEOUT event of timer id of machine h, as event number e
TimeoutEvent(h, id, e) ==
    hsm_event_new("TIMEOUT", "TIMER_EXPIRED", 0, name[h], id, e)

\* lines 472-473: the callback posts the TIMEOUT event
TimerCbPost(t) ==
    /\ Len(stack[t]) > 0
    /\ Top(t).f = "tmr" /\ Top(t).pc = "post"
    /\ LET fr == Top(t)
           e == Len(events) + 1
       IN /\ events' = Append(events, TimeoutEvent(fr.h, fr.id, e))
          /\ bufFrees' = bufFrees \o <<0, 0>>
          /\ elog' = Append(elog, NewLog(fr.h, t, "timer", 0))
          /\ g_main_context_invoke(t, ctx(fr.h),
                 Frame("post", fr.h, e, NULL, "TIMEOUT", "lookup"),
                 SetTop(t, [fr EXCEPT !.pc = "remove"]))
    /\ UNCHANGED <<uctx, recorded, mem, own, name, current_state, states, parent, thread, timers,
                   next_timer_id, tdef, tsources, tpc, ncalls, tlog, mainRun,
                   is_running, batch, freed, released, stopped>>

\* lines 476-479: the id leaves the table and the callback returns
TimerCbRemove(t) ==
    /\ Len(stack[t]) > 0
    /\ Top(t).f = "tmr" /\ Top(t).pc = "remove"
    /\ timers' = [timers EXCEPT ![Top(t).h] = @ \ {Top(t).id}]
    /\ stack' = [stack EXCEPT ![t] = Rest(t)]
    /\ UNCHANGED <<uctx, recorded, mem, own, name, current_state, states, parent, thread,
                   next_timer_id, ctxOwner, tdef, sources, tsources, tpc,
                   events, bufFrees, ncalls, tlog, elog, mainRun,
                   is_running, batch, freed, released, stopped>>

\* hsm_cancel_timer(h, id) on the main thread, line 507: the lookup
MainCancelLookup(h, id) ==
    /\ MainIdle
    /\ IF CancelResult(h, id)
       THEN /\ stack' = [stack EXCEPT ![MainThread] =
                   <<[Frame("cancel", h, 0, NULL, "", "destroy") EXCEPT !.id = id]>>]
            /\ UNCHANGED tlog
       ELSE /\ tlog' = MarkCancel(MainThread, h, id, FALSE)
            /\ UNCHANGED stack
    /\ UNCHANGED <<uctx, recorded, mem, own, name, current_state, states, parent, thread, timers,
                   next_timer_id, ctxOwner, tdef, sources, tsources, tpc,
                   events, bufFrees, ncalls, elog, mainRun,
                   is_running, batch, freed, released, stopped>>

\* line 513 on the main thread
MainCancelDestroy ==
    /\ Len(stack[MainThread]) > 0
    /\ Top(MainThread).f = "cancel" /\ Top(MainThread).pc = "destroy"
    /\ tsources' \in DestroyOutcomes(Top(MainThread).h, Top(MainThread).id)
    /\ stack' = [stack EXCEPT ![MainThread] =
          SetTop(MainThread, [Top(MainThread) EXCEPT !.pc = "remove"])]
    /\ UNCHANGED <<uctx, recorded, mem, own, name, current_state, states, parent, thread, timers,
                   next_timer_id, ctxOwner, tdef, sources, tpc, events,
                   bufFrees, ncalls, tlog, elog, mainRun,
                   is_running, batch, freed, released, stopped>>

\* lines 514-516 on the main thread: the id leaves the table, TRUE is returned
MainCancelRemove ==
    /\ Len(stack[MainThread]) > 0
    /\ Top(MainThread).f = "cancel" /\ Top(MainThread).pc = "remove"
    /\ timers' = [timers EXCEPT ![Top(MainThread).h] = @ \ {Top(MainThread).id}]
    /\ tlog' = MarkCancel(MainThread, Top(MainThread).h, Top(MainThread).id, TRUE)
    /\ stack' = [stack EXCEPT ![MainThread] = Rest(MainThread)]
    /\ UNCHANGED <<uctx, recorded, mem, own, name, current_state, states, parent, thread,
                   next_timer_id, ctxOwner, tdef, sources, tsources, tpc,
                   events, bufFrees, ncalls, elog, mainRun,
                   is_running, batch, freed, released, stopped>>

\* the ids a client may hand to hsm_cancel_timer(h, id): every id returned so
\* far, and 1, which a new machine never returns
KnownIds(h) == {1} \cup {tlog[k].id : k \in {j \in 1..Len(tlog) : tlog[j].h = h}}

\* the steps of the runtime and the return of a handler, as opposed to the
\* calls a client chooses to make
RuntimeStep ==
    \/ \E m \in Workers : hsm_thread_func(m)
    \/ \E t \in Threads : g_main_loop_run(t)
    \/ \E t \in Threads : LoopWait(t)
    \/ \E t \in Threads : DispatchIdle(t)
    \/ \E t \in Threads : \E src \in AllSources : TimerDispatch(t, src)
    \/ \E t \in Threads : TimerCbPost(t)
    \/ \E t \in Threads : TimerCbRemove(t)
    \/ \E t \in Threads : ProcessPostLookup(t)
    \/ \E t \in Threads : ProcessPostBubble(t)
    \/ \E t \in Threads : ProcessPostFree(t)
    \/ \E t \in Threads : ChangeStart(t)
    \/ \E t \in Threads : ChangeCommit(t)
    \/ \E t \in Threads : ChangeDone(t)
    \/ \E t \in Threads, b \in BOOLEAN : HandlerReturn(t, b)

\* machines whose handlers use the timer API on their own context; the
\* transitions come from the main thread and from handlers
NextTimer ==
    \/ \E h \in Hsms, ns \in StateNames : MainChangeState(h, ns)
    \/ \E h \in Workers : hsm_start(h)
    \/ \E h \in Hsms : hsm_run(h)
    \/ \E t \in Threads, h \in Hsms, ns \in StateNames : HandlerChangeState(t, h, ns)
    \/ \E t \in Threads, h \in Hsms : HandlerScheduleTimer(t, h)
    \/ \E t \in Threads, h \in Hsms : \E id \in KnownIds(h) : HandlerCancelTimer(t, h, id)
    \/ RuntimeStep

\* threads are scheduled, elapsed timeouts are dispatched, handlers return
SpecTimer == Init /\ [][NextTimer]_vars /\ WF_vars(RuntimeStep)

\* a machine that has handed out ids before: hsm_schedule_timer was called
\* IntMax - 2 times on machine 1, or never
InitIds ==
    /\ own \in [Hsms -> BOOLEAN]
    /\ name = [h \in Hsms |-> IF h = 1 THEN "child" ELSE "root"]
    /\ current_state = [h \in Hsms |-> NULL]
    /\ states = [h \in Hsms |-> [n \in StateNames |-> hsm_state_new(FirstHandler, h)]]
    /\ parent = [h \in Hsms |-> IF h = 1 THEN 2 ELSE 0]
    /\ thread = [h \in Hsms |-> FALSE]
    /\ timers = [h \in Hsms |-> {}]
    /\ next_timer_id \in {[h \in Hsms |-> IF h = 1 THEN v ELSE 1] : v \in {1, IntMax - 1}}
    /\ ctxOwner = [c \in Ctxs |-> NoThread]
    /\ tdef = [t \in Threads |-> NoCtx]
    /\ sources = [c \in Ctxs |-> <<>>]
    /\ tsources = [c \in Ctxs |-> {}]
    /\ tpc = [t \in Threads |-> IF t = MainThread THEN "script" ELSE "idle"]
    /\ stack = [t \in Threads |-> <<>>]
    /\ events = <<>>
    /\ bufFrees = <<>>
    /\ ncalls = 0
    /\ tlog = <<>>
    /\ elog = <<>>
    /\ mainRun = 0
    /\ is_running = [h \in Hsms |-> FALSE]
    /\ batch = [t \in Threads |-> NoBatch]
    /\ freed = {}
    /\ released = {}
    /\ stopped = [h \in Hsms |-> ""]
    /\ mem = MemInit
    /\ recorded = <<>>
    /\ uctx = <<>>

SpecIds == InitIds /\ [][NextTimer]_vars

\* the same, and the main thread cancels timers of machines whose context
\* another thread runs
NextCancel ==
    \/ NextTimer
    \/ \E h \in Hsms : \E id \in KnownIds(h) : MainCancelLookup(h, id)
    \/ MainCancelDestroy
    \/ MainCancelRemove

SpecCancel == Init /\ [][NextCancel]_vars

(* ======================= properties of dispatch ======================= *)

Events == 1..Len(events)

\* the dispatch of event e was invoked and has not started
Queued(e) ==
    \/ \E c \in Ctxs : \E i \in 1..Len(sources[c]) :
           sources[c][i].f = "post" /\ sources[c][i].ev = e
    \/ \E t \in Threads : \E i \in 1..Len(stack[t]) :
           stack[t][i].f = "post" /\ stack[t][i].ev = e /\ stack[t][i].pc = "lookup"

\* some frame of some thread still works on event e
InFrame(e) == \E t \in Threads : \E i \in 1..Len(stack[t]) : stack[t][i].ev = e

\* the dispatch of e has begun (its handler was entered or the lookup missed)
Dispatched(e) == elog[e].st \in {"entered", "returned", "freed"}

\* the handler of e, if any, has returned
HandlerDone(e) == elog[e].st \in {"returned", "freed"}

Copies(e) == {c \in Events : elog[c].copyOf = e}

SameValue(a, b) ==
    /\ a.type = b.type /\ a.name = b.name /\ a.source = b.source
    /\ a.seq = b.seq /\ a.data = b.data

\* C1: two events handed to hsm_post_event for the same machine by the same
\* thread, in that order: when the handler of the second is entered, the
\* dispatch of the first has returned.
C1_PerProducerFifo ==
    \A e1, e2 \in Events :
        ( /\ e1 < e2
          /\ elog[e1].via = "api" /\ elog[e2].via = "api"
          /\ elog[e1].h = elog[e2].h /\ elog[e1].by = elog[e2].by
          /\ elog[e2].hcalls > 0 )
        => HandlerDone(e1)

\* C2: a handler of M that posts an event to M on M's context: the handler of
\* that event is not entered before the posting handler has returned.
C2_SelfPostDeferred ==
    \A t \in Threads : \A i \in 1..Len(stack[t]) :
        ( /\ stack[t][i].f = "hdl"
          /\ i + 2 <= Len(stack[t])
          /\ stack[t][i + 1].f = "post"
          /\ stack[t][i + 1].h = stack[t][i].h )
        => stack[t][i + 2].f # "hdl"

\* C3: between the EXIT handler of the old state and the ENTRY handler of the
\* new state of a transition of M no other handler of M is invoked.
C3_ExitThenEntry ==
    \A t \in Threads : \A i \in 1..Len(stack[t]) :
        (stack[t][i].f = "chg" /\ stack[t][i].pc = "commit")
        => \A j \in (i + 2)..Len(stack[t]) :
               ~(stack[t][j].f = "hdl" /\ stack[t][j].h = stack[t][i].h)

C5_HandledNotBubbled ==
    \A e \in Events :
        /\ elog[e].res = "true" => Copies(e) = {}
        /\ parent[elog[e].h] = 0 => Copies(e) = {}
        /\ ( parent[elog[e].h] = 0 /\ HandlerDone(e) /\ ~InFrame(e) )
           => elog[e].frees = 1 /\ elog[e].hcalls <= 1

\* a handled event of the child was freed without a copy, and an event of the
\* root, which has no parent, ended unhandled and was freed
C5_Witness ==
    /\ \E e \in Events : /\ elog[e].res = "true" /\ elog[e].st = "freed"
                         /\ parent[elog[e].h] # 0 /\ Copies(e) = {}
    /\ \E e \in Events : /\ elog[e].res \in {"false", "none"} /\ elog[e].st = "freed"
                         /\ parent[elog[e].h] = 0

C7_ContextSerialized ==
    \A t1, t2 \in Threads :
        \A i \in HandlerFrames(t1), j \in HandlerFrames(t2) :
            ( stack[t1][i].h # stack[t2][j].h )
            => ctx(stack[t1][i].h) # ctx(stack[t2][j].h)

\* C8: an event is freed at most once, together with its strings, not before
\* its handler returned nor while a frame other than its own dispatch holds
\* it, and once its dispatch is over it has been freed; a bubbled copy shares
\* no string buffer with the original.
C8_EventFreedOnce ==
    /\ \A e \in Events :
          /\ elog[e].frees <= 1
          /\ elog[e].frees = 1 => HandlerDone(e) /\ ~InFrame(e)
          /\ ( Dispatched(e) /\ ~InFrame(e) ) => elog[e].frees = 1
          /\ ( elog[e].frees = 1 /\ ShouldBubble(elog[e].res = "true", parent[elog[e].h]) )
             => Copies(e) # {}
          /\ \A c \in Copies(e) :
                /\ events[c].nameBuf = 0 \/ events[c].nameBuf # events[e].nameBuf
                /\ events[c].srcBuf = 0 \/ events[c].srcBuf # events[e].srcBuf
    /\ \A b \in DOMAIN bufFrees : bufFrees[b] <= 1

\* an event with strings bubbled, and both the original and the copy are freed
C8_Witness ==
    \E e \in Events : \E c \in Copies(e) :
        /\ events[e].nameBuf # 0 /\ events[e].srcBuf # 0
        /\ elog[e].frees = 1 /\ elog[c].frees = 1
        /\ bufFrees[events[e].nameBuf] = 1 /\ bufFrees[events[c].nameBuf] = 1

(* ======================== properties of timers ======================== *)

Timers == 1..Len(tlog)

\* the TIMEOUT events that callbacks of timer k have posted to its machine
TimerEvents(k) ==
    {e \in Events : /\ elog[e].via = "timer" /\ elog[e].h = tlog[k].h
                    /\ events[e].seq = tlog[k].id}

\* some thread runs the loop of h's context
ContextRuns(h) == \E t \in Threads : tpc[t] = "loop" /\ LoopCtx(t) = ctx(h)

\* the TIMEOUT of timer k was dispatched on its machine: to the handler of the
\* current state, once, or to none because the current state has none
Observed(k) ==
    \E e \in TimerEvents(k) :
        /\ Dispatched(e)
        /\ elog[e].hcalls = (IF elog[e].res = "none" THEN 0 ELSE 1)

\* at most one TIMEOUT per timer, carrying type TIMEOUT, name "TIMER_EXPIRED",
\* no data, the machine's name as source and the timer id as seq, dispatched
\* to at most one handler
OneTimeout(k) ==
    /\ Cardinality(TimerEvents(k)) <= 1
    /\ \A e \in TimerEvents(k) :
          /\ tlog[k].fired
          /\ events[e].type = "TIMEOUT" /\ events[e].name = "TIMER_EXPIRED"
          /\ events[e].data = 0 /\ events[e].source = name[tlog[k].h]
          /\ events[e].seq = tlog[k].id
          /\ elog[e].hcalls <= 1
          /\ Queued(e) \/ Dispatched(e)

C10_CancelPreventsTimeout ==
    \A k \in Timers :
        /\ ~tlog[k].refused
        /\ tlog[k].canc = "before"
           => /\ ~tlog[k].fired
              /\ TimerEvents(k) = {}
              /\ TimerSrc(tlog[k].h, tlog[k].id) \notin AllSources
        /\ Cardinality(TimerEvents(k)) <= 1
        /\ \A e \in TimerEvents(k) : elog[e].hcalls <= 1

\* the main thread's cancel of a timer returned TRUE before the timer fired,
\* the loop of the timer's context runs on another thread, and nothing is left
\* to do
C10_Witness ==
    \E k \in Timers :
        /\ tlog[k].canc = "before" /\ tlog[k].cby = MainThread
        /\ \E t \in Workers : tpc[t] = "loop" /\ LoopCtx(t) = ctx(tlog[k].h)
        /\ tlog[k].id \notin timers[tlog[k].h]
        /\ \A t \in Threads : stack[t] = <<>>
        /\ thread[tlog[k].h] /\ own[tlog[k].h]

(* ===================== properties of the timer table ================== *)

\* the ids of machine h that were scheduled and have neither fired nor been
\* cancelled
PendingIds(h) ==
    {tlog[k].id : k \in {j \in Timers : /\ tlog[j].h = h /\ ~tlog[j].fired
                                       /\ tlog[j].canc = ""}}

\* the handler activations that process a TIMEOUT a timer callback posted
TimeoutHandlers(t) ==
    {i \in HandlerFrames(t) : stack[t][i].ev # 0 /\ elog[stack[t][i].ev].via = "timer"}

\* the ids of machine h whose callback was entered and has not posted yet
EnteredIds(h) ==
    UNION {{stack[t][i].id : i \in {j \in 1..Len(stack[t]) :
                /\ stack[t][j].f = "tmr" /\ stack[t][j].h = h
                /\ stack[t][j].pc = "post"}} : t \in Threads}

\* C11: once the callback of timer id has posted the TIMEOUT, and so while a
\* handler processes the TIMEOUT with seq = id, id is not in M.timers (so
\* hsm_cancel_timer(M, id) returns FALSE); the table holds exactly the ids
\* that were scheduled and have neither fired nor been cancelled.
C11_RemovedBeforePost ==
    /\ \A t \in Threads : \A i \in TimeoutHandlers(t) :
          events[stack[t][i].ev].seq \notin timers[stack[t][i].h]
    /\ \A h \in Hsms :
          /\ PendingIds(h) \subseteq timers[h]
          /\ timers[h] \subseteq PendingIds(h) \cup EnteredIds(h)

\* C12: hsm_cancel_timer(M, id) for an id that is not pending (never issued,
\* already cancelled, or already fired) returns FALSE and leaves M.timers and
\* every attached timer source unchanged.
C12_CancelUnknownIsNoop ==
    [][\A t \in Threads, h \in Hsms : \A id \in KnownIds(h) :
          (HandlerCancelTimer(t, h, id) /\ id \notin PendingIds(h))
          => (~CancelResult(h, id) /\ UNCHANGED <<timers, tsources>>)]_vars

(* ======================== properties of timer ids ===================== *)

\* C13: the ids hsm_schedule_timer returns on one machine are positive and
\* strictly increasing in the order of the calls (hence pairwise distinct and
\* never returned again), and a call on one machine changes the counter of no
\* other machine.
C13_IdsIncrease ==
    /\ [](\A k \in Timers :
            /\ tlog[k].id > 0
            /\ tlog[k].id <= next_timer_id[tlog[k].h]
            /\ \A j \in Timers :
                  (j < k /\ tlog[j].h = tlog[k].h) => tlog[j].id < tlog[k].id)
    /\ [][\A h \in Hsms :
            next_timer_id'[h] # next_timer_id[h]
            => /\ Len(tlog') = Len(tlog) + 1
               /\ tlog'[Len(tlog')].h = h
               /\ tlog'[Len(tlog')].id = next_timer_id'[h]
               /\ \A g \in Hsms \ {h} : next_timer_id'[g] = next_timer_id[g]]_vars

(* ===================== properties of foreign callers ================== *)

\* the activations of hsm_cancel_timer on thread t
CancelFrames(t) == {i \in 1..Len(stack[t]) : stack[t][i].f = "cancel"}

\* C14: a thread is inside hsm_cancel_timer(M, .), between its lookup in
\* M.timers and its removal from it, only when no other thread drives M's
\* context, and the handle it passes to g_source_destroy is not released.
C14_TimerOpsSerialized ==
    \A t \in Threads : \A i \in CancelFrames(t) :
        /\ ctxOwner[ctx(stack[t][i].h)] \in {NoThread, t}
        /\ stack[t][i].pc = "destroy" => Alive(stack[t][i].h, stack[t][i].id)

(* ======================= hsm_get_state_copy =========================== *)

\* what reading a released buffer can give that no state name is
Garbage == "?"

\* line 529: g_strdup of h->current_state, "" when it is NULL; a read of a
\* released buffer gives anything
CopyOutcomes(h) ==
    IF h \in released THEN StateNames \cup {"", Garbage}
    ELSE {IF current_state[h] = NULL THEN "" ELSE current_state[h]}

\* hsm_get_state_copy(h) on the main thread, lines 528-530.  No other function
\* takes h->lock, so that the lock never makes this caller wait.
MainGetStateCopy(h) ==
    /\ MainIdle
    /\ \E c \in CopyOutcomes(h) :
           stack' = [stack EXCEPT ![MainThread] =
               <<Frame("copy", h, 0, c, IF h \in released THEN "released" ELSE "", "ret")>>]
    /\ UNCHANGED <<uctx, recorded, mem, own, name, current_state, states, parent, thread, timers,
                   next_timer_id, ctxOwner, tdef, sources, tsources, tpc, events,
                   bufFrees, ncalls, tlog, elog, mainRun,
                   is_running, batch, freed, released, stopped>>

\* line 532: the copy is returned (and dropped by the caller)
MainCopyReturn ==
    /\ stack[MainThread] # <<>>
    /\ Top(MainThread).f = "copy"
    /\ stack' = [stack EXCEPT ![MainThread] = <<>>]
    /\ UNCHANGED <<uctx, recorded, mem, own, name, current_state, states, parent, thread, timers,
                   next_timer_id, ctxOwner, tdef, sources, tsources, tpc, events,
                   bufFrees, ncalls, tlog, elog, mainRun,
                   is_running, batch, freed, released, stopped>>

\* transitions on a worker or on the main thread, with line 293 and line 294
\* as separate steps, while the main thread takes snapshots
NextSnap ==
    \/ \E h \in Hsms, ns \in StateNames : MainChangeState(h, ns)
    \/ \E h \in Workers : hsm_start(h)
    \/ \E m \in Workers : hsm_thread_func(m)
    \/ \E t \in Threads : g_main_loop_run(t)
    \/ \E t \in Threads : LoopWait(t)
    \/ \E t \in Threads : DispatchIdle(t)
    \/ \E t \in Threads : ChangeStart(t)
    \/ \E t \in Threads : ChangeFree(t)
    \/ \E t \in Threads : ChangeAssign(t)
    \/ \E t \in Threads : ChangeDone(t)
    \/ \E t \in Threads, h \in Hsms, ns \in StateNames : HandlerChangeState(t, h, ns)
    \/ \E t \in Threads, b \in BOOLEAN : HandlerReturn(t, b)
    \/ \E h \in Hsms : MainGetStateCopy(h)
    \/ MainCopyReturn

SpecSnap == Init /\ [][NextSnap]_vars

\* the snapshots in progress: (thread, frame)
CopyFrames(t) == {i \in 1..Len(stack[t]) : stack[t][i].f = "copy"}

\* C15: a snapshot never reads a released buffer, and is a state name that a
\* transition committed, or "" when none has
C15_SnapshotConsistent ==
    \A t \in Threads : \A i \in CopyFrames(t) :
        /\ stack[t][i].k # "released"
        /\ stack[t][i].s \in StateNames \cup {""}

(* ============================ hsm_stop ================================ *)

\* hsm_stop(h), lines 388-390: g_main_loop_quit clears the flag of a loop that
\* is running, and nothing happens to one that is not; who is "handler" when a
\* handler of h makes the call
hsm_stop(h, who) ==
    IF is_running[h]
    THEN /\ is_running' = [is_running EXCEPT ![h] = FALSE]
         /\ stopped' = [stopped EXCEPT ![h] = who]
    ELSE UNCHANGED <<is_running, stopped>>

\* a handler calls hsm_stop on any machine
HandlerStop(t, h) ==
    /\ InHandler(t)
    /\ hsm_stop(h, IF Top(t).h = h THEN "handler" ELSE "other")
    /\ UNCHANGED <<uctx, recorded, mem, own, name, current_state, states, parent, thread, timers,
                   next_timer_id, ctxOwner, tdef, sources, tsources, tpc, stack,
                   events, bufFrees, ncalls, tlog, elog, mainRun, batch, freed,
                   released>>

\* g_main_loop_run returns once the flag of the loop is clear: between two
\* iterations, or while waiting for the context
LoopQuit(t) == ~is_running[LoopHsm(t)]

\* g_main_loop_run returns; lines 351-353 of hsm_thread_func and 379-380 of
\* hsm_run: the thread default is popped and the context released, the worker
\* exits, hsm_run returns to the main thread's program
LoopReturn(t) ==
    /\ \/ tpc[t] = "loop" /\ stack[t] = <<>> /\ batch[t].n = 0
       \/ tpc[t] = "wait"
    /\ LoopQuit(t)
    /\ ctxOwner' = IF ctxOwner[LoopCtx(t)] = t
                   THEN [ctxOwner EXCEPT ![LoopCtx(t)] = NoThread] ELSE ctxOwner
    /\ tdef' = [tdef EXCEPT ![t] = NoCtx]
    /\ batch' = [batch EXCEPT ![t] = NoBatch]
    /\ tpc' = [tpc EXCEPT ![t] = IF t = MainThread THEN "script" ELSE "exited"]
    /\ mainRun' = IF t = MainThread THEN 0 ELSE mainRun
    /\ UNCHANGED <<uctx, recorded, mem, own, name, current_state, states, parent, thread, timers,
                   next_timer_id, sources, tsources, stack, events, bufFrees,
                   ncalls, tlog, elog, is_running, freed, released, stopped>>

\* the event a client posts in the runs that stop a loop
StepInput == [type |-> "STEP", name |-> NULL, data |-> 0, source |-> NULL, seq |-> 0]

\* the steps of the runtime when loops can be quit
StopRuntimeStep ==
    \/ \E m \in Workers : hsm_thread_func(m)
    \/ \E t \in Threads : g_main_loop_run(t)
    \/ \E t \in Threads : LoopWait(t)
    \/ \E t \in Threads : LoopReturn(t)
    \/ \E t \in Threads : DispatchIdle(t)
    \/ \E t \in Threads : ProcessPostLookup(t)
    \/ \E t \in Threads : ProcessPostBubble(t)
    \/ \E t \in Threads : ProcessPostFree(t)
    \/ \E t \in Threads : ChangeStart(t)
    \/ \E t \in Threads : ChangeCommit(t)
    \/ \E t \in Threads : ChangeDone(t)
    \/ \E t \in Threads, b \in BOOLEAN : HandlerReturn(t, b)

\* machines that are run, sent events and stopped from their handlers
NextStop ==
    \/ \E h \in Hsms : MainPostEvent(h, StepInput)
    \/ \E h \in Hsms, ns \in StateNames : MainChangeState(h, ns)
    \/ \E h \in Workers : hsm_start(h)
    \/ \E h \in Hsms : hsm_run(h)
    \/ \E t \in Threads, h \in Hsms : HandlerPostEvent(t, h, StepInput)
    \/ \E t \in Threads, h \in Hsms : HandlerStop(t, h)
    \/ StopRuntimeStep

SpecStop == Init /\ [][NextStop]_vars

(* ======================== properties of hsm_stop ====================== *)

\* C16: once a handler of M has called hsm_stop(M) on a running loop, no event
\* of M that is still waiting has its dispatch begun: neither one that was
\* queued before the call nor one that the handler posts after it.
C16_NothingAfterStop ==
    [][\A h \in Hsms : stopped[h] = "handler" =>
          \A e \in Events : (elog[e].h = h /\ elog[e].st = "posted")
                                => elog'[e].st = "posted"]_vars

\* threads are scheduled, loops iterate and return, handlers return
SpecStopFair == SpecStop /\ WF_vars(StopRuntimeStep)

\* hsm_run(h) is blocked in g_main_loop_run on the main thread
RunBlocked(h) == mainRun = h /\ tpc[MainThread] \in {"loop", "wait"}

\* C17: hsm_run(M) returns only after an hsm_stop(M) that quit its loop, and
\* once hsm_stop(M) has quit the loop hsm_run(M) is blocked in, hsm_run(M)
\* returns.
C17_RunUntilStop ==
    /\ [][\A h \in Hsms : (RunBlocked(h) /\ tpc'[MainThread] = "script")
                            => stopped[h] # ""]_vars
    /\ \A h \in Hsms : (RunBlocked(h) /\ stopped[h] # "") ~> ~RunBlocked(h)

(* ============================ hsm_destroy ============================= *)

\* g_main_context_unref (line 220) of a private context drops its last
\* reference, and the sources still attached go with it; the default context
\* keeps every source attached to it
ContextUnref(q, h, empty) == IF own[h] THEN [q EXCEPT ![ctx(h)] = empty] ELSE q

\* hsm_destroy(h) on the main thread, line 211: hsm_stop(h), then the join
MainDestroy(h) ==
    /\ MainIdle
    /\ h \notin freed
    /\ hsm_stop(h, "other")
    /\ stack' = [stack EXCEPT ![MainThread] = <<Frame("destroy", h, 0, NULL, "", "join")>>]
    /\ UNCHANGED <<uctx, recorded, mem, own, name, current_state, states, parent, thread, timers,
                   next_timer_id, ctxOwner, tdef, sources, tsources, tpc,
                   events, bufFrees, ncalls, tlog, elog, mainRun, batch, freed,
                   released>>

\* lines 212-239: g_thread_join returns once the worker has left
\* hsm_thread_func; the loop and the context are unreferenced, the two tables
\* destroyed (h->timers has no value destructor, and line 497 has dropped the
\* reference of each source already), the strings and the machine released
DestroyJoin ==
    /\ stack[MainThread] # <<>>
    /\ Top(MainThread).f = "destroy"
    /\ LET h == Top(MainThread).h IN
       /\ thread[h] => tpc[h] = "exited"
       /\ thread' = [thread EXCEPT ![h] = FALSE]
       /\ sources' = ContextUnref(sources, h, <<>>)
       /\ tsources' = ContextUnref(tsources, h, {})
       /\ states' = [states EXCEPT ![h] = [n \in {} |-> hsm_state_new(0, 0)]]
       /\ timers' = [timers EXCEPT ![h] = {}]
       /\ freed' = freed \cup {h}
    /\ stack' = [stack EXCEPT ![MainThread] = <<>>]
    /\ UNCHANGED <<uctx, recorded, mem, own, name, current_state, parent, next_timer_id, ctxOwner,
                   tdef, tpc, events, bufFrees, ncalls, tlog, elog, mainRun,
                   is_running, batch, released, stopped>>

\* the machines no other machine has as its parent
Leaves == {h \in Hsms : \A g \in Hsms : parent[g] # h}

\* the steps of the runtime when machines are destroyed
DestroyRuntimeStep ==
    \/ \E m \in Workers : hsm_thread_func(m)
    \/ \E t \in Threads : g_main_loop_run(t)
    \/ \E t \in Threads : LoopWait(t)
    \/ \E t \in Threads : LoopReturn(t)
    \/ \E t \in Threads : DispatchIdle(t)
    \/ \E t \in Threads : \E src \in AllSources : TimerDispatch(t, src)
    \/ \E t \in Threads : TimerCbPost(t)
    \/ \E t \in Threads : TimerCbRemove(t)
    \/ \E t \in Threads : ProcessPostLookup(t)
    \/ \E t \in Threads : ProcessPostBubble(t)
    \/ \E t \in Threads : ProcessPostFree(t)
    \/ \E t \in Threads : ChangeStart(t)
    \/ \E t \in Threads : ChangeCommit(t)
    \/ \E t \in Threads : ChangeDone(t)
    \/ \E t \in Threads, b \in BOOLEAN : HandlerReturn(t, b)
    \/ DestroyJoin

\* machines that are run, set timers, and are destroyed by the main thread
\* once it makes no other call on them
NextDestroy ==
    \/ \E h \in Hsms \ freed, ns \in StateNames : MainChangeState(h, ns)
    \/ \E h \in Workers \ freed : hsm_start(h)
    \/ \E h \in Hsms \ freed : hsm_run(h)
    \/ \E h \in Leaves : MainDestroy(h)
    \/ \E t \in Threads, h \in Hsms \ freed : HandlerScheduleTimer(t, h)
    \/ \E t \in Threads, h \in Hsms \ freed : HandlerStop(t, h)
    \/ DestroyRuntimeStep

SpecDestroy == Init /\ [][NextDestroy]_vars /\ WF_vars(DestroyRuntimeStep)

(* ====================== properties of hsm_destroy ===================== *)

\* hsm_destroy(h) was called and has not returned
Destroying(h) ==
    \E i \in 1..Len(stack[MainThread]) :
        stack[MainThread][i].f = "destroy" /\ stack[MainThread][i].h = h

\* C18: hsm_destroy(M) called from the main thread returns.
C18_DestroyTerminates == \A h \in Hsms : Destroying(h) ~> h \in freed

\* the frames of thread t that work for machine h: a timer callback, the
\* dispatch of an event, a transition, a handler
WorkFrames(t, h) ==
    {i \in 1..Len(stack[t]) :
        stack[t][i].h = h /\ stack[t][i].f \in {"tmr", "post", "chg", "hdl"}}

\* C19: once hsm_destroy(M) has returned, no timeout source of M is attached
\* to a context, and no thread runs a timer callback or a work item of M.
C19_NothingAfterDestroy ==
    \A h \in freed :
        /\ \A c \in Ctxs : \A src \in tsources[c] : src.h # h
        /\ \A t \in Threads : WorkFrames(t, h) = {}

(* =================== properties of hsm_change_state =================== *)

\* thread t is the one that runs the context of machine h
RunsContext(t, h) == ctxOwner[ctx(h)] = t

\* C20: hsm_change_state(M, T) from a handler on the thread that runs M's
\* context starts the transition on the spot, so that it is over when the call
\* returns; from any other thread it leaves the caller's stack alone and
\* queues the transition on M's context.
C20_DirectOrQueued ==
    [][\A t \in Threads, h \in Hsms, ns \in StateNames :
          (HandlerChangeState(t, h, ns) \/ (t = MainThread /\ MainChangeState(h, ns)))
          => IF RunsContext(t, h)
             THEN /\ stack'[t] = Append(stack[t], ChangeReq(t, h, ns))
                  /\ sources' = sources
             ELSE /\ stack'[t] = stack[t]
                  /\ sources' = [sources EXCEPT ![ctx(h)] =
                                    Append(@, ChangeReq(t, h, ns))]]_vars

(* ============== properties of requests from other threads ============= *)

\* a transition of h that thread t asked for waits in the queue of h's context
QueuedChange(t, h) ==
    \E i \in 1..Len(sources[ctx(h)]) :
        LET fr == sources[ctx(h)][i] IN fr.f = "chg" /\ fr.h = h /\ fr.by = t

\* an event that thread t posted to h waits in the queue of h's context
QueuedPost(t, h) ==
    \E i \in 1..Len(sources[ctx(h)]) :
        LET fr == sources[ctx(h)][i] IN
        fr.f = "post" /\ fr.h = h /\ elog[fr.ev].by = t /\ elog[fr.ev].via = "api"

\* thread t calls hsm_post_event(h, .), hsm_change_state(h, .)
PostBy(t, h) ==
    \E in \in EventInputs :
        HandlerPostEvent(t, h, in) \/ (t = MainThread /\ MainPostEvent(h, in))
ChangeBy(t, h) ==
    \E ns \in StateNames :
        HandlerChangeState(t, h, ns) \/ (t = MainThread /\ MainChangeState(h, ns))

\* C21: a request to M of a thread that does not run M's context never
\* overtakes an earlier request of the same thread to M that still waits in
\* the queue of M's context: the event
\* posted after a queued transition, and the transition asked after a queued
\* event, are queued behind it and not run by the call.
C21_CallerOrderKept ==
    [][\A t \in Threads, h \in Hsms :
          ~RunsContext(t, h) =>
              /\ (QueuedChange(t, h) /\ PostBy(t, h)) => stack'[t] = stack[t]
              /\ (QueuedPost(t, h) /\ ChangeBy(t, h)) => stack'[t] = stack[t]]_vars

(* ================== properties of posted events ======================= *)

\* the steps of the runtime when events are posted and loops keep running
PostRuntimeStep ==
    \/ \E m \in Workers : hsm_thread_func(m)
    \/ \E t \in Threads : g_main_loop_run(t)
    \/ \E t \in Threads : LoopWait(t)
    \/ \E t \in Threads : DispatchIdle(t)
    \/ \E t \in Threads : ProcessPostLookup(t)
    \/ \E t \in Threads : ProcessPostBubble(t)
    \/ \E t \in Threads : ProcessPostFree(t)
    \/ \E t \in Threads : ChangeStart(t)
    \/ \E t \in Threads : ChangeCommit(t)
    \/ \E t \in Threads : ChangeDone(t)
    \/ \E t \in Threads, b \in BOOLEAN : HandlerReturn(t, b)

\* the main thread and the handlers post events to machines whose loops, once
\* started, are never quit
NextPost ==
    \/ \E h \in Hsms : MainPostEvent(h, StepInput)
    \/ \E h \in Hsms, ns \in StateNames : MainChangeState(h, ns)
    \/ \E h \in Workers : hsm_start(h)
    \/ \E h \in Hsms : hsm_run(h)
    \/ \E t \in Threads, h \in Hsms : HandlerPostEvent(t, h, StepInput)
    \/ PostRuntimeStep

\* threads are scheduled, loops iterate, handlers return
SpecPost == Init /\ [][NextPost]_vars /\ WF_vars(PostRuntimeStep)

\* the events handed to hsm_post_event by a client
Posted == {e \in Events : elog[e].via = "api"}

\* the activations of hsm_process_post for machine h on thread t
PostFrames(t, h) ==
    {i \in 1..Len(stack[t]) : stack[t][i].f = "post" /\ stack[t][i].h = h}

\* the dispatch of event e waits in the queue of a context
InQueue(e) ==
    \E c \in Ctxs : \E i \in 1..Len(sources[c]) :
        sources[c][i].f = "post" /\ sources[c][i].ev = e

\* an event posted to M has reached the handler of M's current state at most
\* once, and exactly once when its dispatch is over and a handler resolved; it
\* does not wait in a queue once its dispatch has begun; no two threads
\* dispatch events of M at the same time
OnceEach ==
    /\ \A e \in Posted :
          /\ elog[e].hcalls <= 1
          /\ ~(InQueue(e) /\ InFrame(e))
          /\ elog[e].st \in {"returned", "freed"}
                => elog[e].hcalls = (IF elog[e].res = "none" THEN 0 ELSE 1)
    /\ \A h \in Hsms : \A t1, t2 \in Threads :
          t1 # t2 => PostFrames(t1, h) = {} \/ PostFrames(t2, h) = {}

\* C22: every event posted to M is dispatched exactly once: OnceEach holds in
\* every state, and while a thread runs the loop of M's context every posted
\* event is dispatched.
C22_DispatchedOnce ==
    /\ OnceEach
    /\ [][OnceEach']_vars
    /\ \A e \in 1..MaxCalls :
          (e \in Posted /\ ContextRuns(elog[e].h)) ~> (e \in Posted /\ Dispatched(e))

\* two threads have posted to the same machine while its loop runs; one event
\* was handled and freed and the other still waits in the context's queue
C22_Witness ==
    \E e1, e2 \in Posted :
        /\ elog[e1].h = elog[e2].h /\ elog[e1].by # elog[e2].by
        /\ ContextRuns(elog[e1].h)
        /\ elog[e1].st = "freed" /\ elog[e1].hcalls = 1
        /\ elog[e2].st = "posted" /\ Queued(e2)

(* ===================== properties of transitions ====================== *)

\* the transition on top of t's stack is about to start, towards the state
\* the machine is in
SameTarget(t) ==
    /\ Len(stack[t]) > 0
    /\ Top(t).f = "chg" /\ Top(t).pc = "start"
    /\ current_state[Top(t).h] = Top(t).s

RegistryKeepOld(reg, n, entry) ==
    [m \in DOMAIN reg \cup {n} |-> IF m \in DOMAIN reg THEN reg[m] ELSE entry]

\* line 270: g_hash_table_insert(h->states, s->name, s) on a table keyed by
\* string equality (line 193): the value of an equal key is replaced, the old
\* entry goes to hsm_state_free, the other names keep their entries
RegistryInsert(reg, n, entry) ==
    [m \in DOMAIN reg \cup {n} |-> IF m = n THEN entry ELSE reg[m]]

\* lines 264-271: hsm_register_state(h, n, f, u) with h and n not NULL
hsm_register_state(h, n, f, u) ==
    states' = [states EXCEPT ![h] = RegistryInsert(@, n, hsm_state_new(f, u))]

\* a handler of h registers state n of h with handler f; the registry is
\* changed on the machine's own context only
HandlerRegister(t, n, f) ==
    /\ InHandler(t)
    /\ ncalls < MaxCalls
    /\ ncalls' = ncalls + 1
    /\ hsm_register_state(Top(t).h, n, f, Top(t).h)
    /\ UNCHANGED <<uctx, recorded, mem, own, name, current_state, parent, thread, timers,
                   next_timer_id, ctxOwner, tdef, sources, tsources, tpc, stack,
                   events, bufFrees, tlog, elog, mainRun,
                   is_running, batch, freed, released, stopped>>

\* the construction phase registered state "A" only on both machines
InitReg ==
    /\ own \in [Hsms -> BOOLEAN]
    /\ name = [h \in Hsms |-> IF h = 1 THEN "child" ELSE "root"]
    /\ current_state = [h \in Hsms |-> NULL]
    /\ states = [h \in Hsms |-> [n \in {"A"} |-> hsm_state_new(FirstHandler, h)]]
    /\ parent = [h \in Hsms |-> IF h = 1 THEN 2 ELSE 0]
    /\ thread = [h \in Hsms |-> FALSE]
    /\ timers = [h \in Hsms |-> {}]
    /\ next_timer_id = [h \in Hsms |-> 1]
    /\ ctxOwner = [c \in Ctxs |-> NoThread]
    /\ tdef = [t \in Threads |-> NoCtx]
    /\ sources = [c \in Ctxs |-> <<>>]
    /\ tsources = [c \in Ctxs |-> {}]
    /\ tpc = [t \in Threads |-> IF t = MainThread THEN "script" ELSE "idle"]
    /\ stack = [t \in Threads |-> <<>>]
    /\ events = <<>>
    /\ bufFrees = <<>>
    /\ ncalls = 0
    /\ tlog = <<>>
    /\ elog = <<>>
    /\ mainRun = 0
    /\ is_running = [h \in Hsms |-> FALSE]
    /\ batch = [t \in Threads |-> NoBatch]
    /\ freed = {}
    /\ released = {}
    /\ stopped = [h \in Hsms |-> ""]
    /\ mem = MemInit
    /\ recorded = <<>>
    /\ uctx = <<>>

\* clients post events and request transitions, handlers register states
NextReg ==
    \/ \E h \in Hsms : MainPostEvent(h, StepInput)
    \/ \E h \in Hsms, ns \in StateNames : MainChangeState(h, ns)
    \/ \E h \in Workers : hsm_start(h)
    \/ \E h \in Hsms : hsm_run(h)
    \/ \E t \in Threads, n \in StateNames, f \in Handlers : HandlerRegister(t, n, f)
    \/ PostRuntimeStep

SpecReg == InitReg /\ [][NextReg]_vars

\* thread t's step called a handler: the frame it pushed
Called(t) == stack'[t][Len(stack[t]) + 1]
CallsHandler(t) ==
    /\ Len(stack'[t]) = Len(stack[t]) + 1
    /\ Called(t).f = "hdl"

\* the handler registered for s on h is called for a synthesized event of
\* that kind: no name, no data, source = machine name, seq = 0
SynthCall(t, h, s, kind) ==
    /\ CallsHandler(t)
    /\ Called(t).h = h /\ Called(t).s = s /\ Called(t).k = kind
    /\ Called(t).fn = states[h][s].handler
    /\ Called(t).ud = states[h][s].user_data
    /\ Called(t).ev = 0
    /\ Called(t).syn.type = kind
    /\ Called(t).syn.name = NULL /\ Called(t).syn.data = 0
    /\ Called(t).syn.source = name[h] /\ Called(t).syn.seq = 0

\* C24: a transition S -> T first calls the handler registered for S with EXIT
\* while current_state is S, then sets current_state to T and calls the
\* handler registered for T with ENTRY; both events have no name, no data,
\* source = machine name and seq = 0; whatever the handler returns for them,
\* the transition goes on the same way and nothing is posted or bubbled.
C24_ExitCommitEntry ==
    [][\A t \in Threads :
          /\ (ChangeStart(t) /\ ~SameTarget(t))
             => /\ current_state' = current_state
                /\ Top(t).pc = "start" /\ stack'[t][Len(stack[t])].pc = "commit"
                /\ Resolve(Top(t).h, current_state[Top(t).h]) # NULL
                   => SynthCall(t, Top(t).h, current_state[Top(t).h], "EXIT")
          /\ ChangeCommit(t)
             => /\ current_state'[Top(t).h] = Top(t).s
                /\ Top(t).s \in Registered(Top(t).h)
                   => /\ SynthCall(t, Top(t).h, current_state'[Top(t).h], "ENTRY")
                      /\ stack'[t][Len(stack[t])].pc = "done"
          /\ (InHandler(t) /\ Top(t).k \in {"EXIT", "ENTRY"}
                /\ \E b \in BOOLEAN : HandlerReturn(t, b))
             => /\ stack'[t] = Rest(t)
                /\ UNCHANGED <<current_state, sources, events, elog, states>>]_vars

\* the handler a handler registered for "B" is called with ENTRY, with "B"
\* current: the machine left a state whose handler ran
C24_Witness ==
    \E t \in Threads :
        /\ InHandler(t)
        /\ Top(t).k = "ENTRY" /\ Top(t).s = "B" /\ Top(t).fn = 2
        /\ current_state[Top(t).h] = "B"
        /\ Top(t).syn = SynthEvent("ENTRY", Top(t).h)

\* h is parked: its current state has no entry in its registry
Parked(h) == current_state[h] # NULL /\ current_state[h] \notin Registered(h)

\* the copies made of event e for a parent machine
CopiesOf(e) == {c \in 1..Len(events) : elog[c].copyOf = e}

\* the dispatch of event e found no handler and is over: no handler was
\* called for e, and e was copied once to the parent of its machine if that
\* machine has one, to nobody otherwise
MissedAndDone(e) ==
    /\ elog[e].hcalls = 0
    /\ IF parent[elog[e].h] # 0
       THEN /\ Cardinality(CopiesOf(e)) = 1
            /\ \A c \in CopiesOf(e) :
                  elog[c].h = parent[elog[e].h] /\ elog[c].via = "bubble"
       ELSE CopiesOf(e) = {}

ParkedDispatch ==
    \A e \in 1..Len(events) :
        (elog[e].res = "none" /\ elog[e].st = "freed") => MissedAndDone(e)

\* C25: a transition to an unregistered name still calls EXIT of the old
\* state and commits the name, without an ENTRY call; a dispatch on a parked
\* machine calls no handler, and its event goes to the parent if there is one
\* and is dropped otherwise.
C25_ParkedInUnknown ==
    /\ ParkedDispatch
    /\ [][/\ ParkedDispatch'
          /\ \A t \in Threads :
               /\ (ChangeStart(t) /\ ~SameTarget(t)
                     /\ Top(t).s \notin Registered(Top(t).h)
                     /\ Resolve(Top(t).h, current_state[Top(t).h]) # NULL)
                  => SynthCall(t, Top(t).h, current_state[Top(t).h], "EXIT")
               /\ (ChangeCommit(t) /\ Top(t).s \notin Registered(Top(t).h))
                  => /\ current_state'[Top(t).h] = Top(t).s
                     /\ current_state'[Top(t).h] \notin DOMAIN states'[Top(t).h]
                     /\ stack'[t] = Rest(t)
               /\ (ProcessPostLookup(t) /\ Parked(Top(t).h))
                  => /\ ~CallsHandler(t)
                     /\ elog'[Top(t).ev].res = "none"
                     /\ stack'[t][Len(stack[t])].handled = FALSE]_vars

\* both machines are parked in "B"; an event posted to the child found no
\* handler and went to the parent, where its copy found none and was dropped
C25_Witness ==
    /\ Parked(1) /\ Parked(2)
    /\ \E e \in 1..Len(events), c \in 1..Len(events) :
          /\ elog[e].h = 1 /\ elog[e].via = "api"
          /\ elog[e].res = "none" /\ elog[e].st = "freed"
          /\ elog[c].copyOf = e /\ elog[c].h = 2
          /\ elog[c].res = "none" /\ elog[c].st = "freed"

\* the kinds of event hsm_change_state_internal makes
TransitionKinds == {"ENTRY", "EXIT"}

\* every ENTRY/EXIT handler call in progress was made by a transition of the
\* very machine it is for, with an event that is not a posted one
LocalDelivery ==
    \A t \in Threads : \A i \in HandlerFrames(t) :
        stack[t][i].k \in TransitionKinds
        => /\ stack[t][i].ev = 0
           /\ stack[t][i].syn.type = stack[t][i].k
           /\ i > 1
           /\ stack[t][i - 1].f = "chg"
           /\ stack[t][i - 1].h = stack[t][i].h

\* no event handed to hsm_process_post, a bubbled copy included, and no
\* queued dispatch is of kind ENTRY or EXIT
NoneBubbled ==
    /\ \A e \in 1..Len(events) : events[e].type \notin TransitionKinds
    /\ \A c \in Ctxs : \A i \in 1..Len(sources[c]) :
          sources[c][i].f = "post" => sources[c][i].k \notin TransitionKinds

\* C26: ENTRY and EXIT reach only the machine whose transition made them: no
\* such event is ever copied to a parent or queued for dispatch, and the
\* return of an ENTRY/EXIT handler, TRUE or FALSE, makes no event.
C26_EntryExitLocal ==
    /\ LocalDelivery /\ NoneBubbled
    /\ [][/\ LocalDelivery' /\ NoneBubbled'
          /\ \A t \in Threads :
               (InHandler(t) /\ Top(t).k \in TransitionKinds
                  /\ \E b \in BOOLEAN : HandlerReturn(t, b))
               => UNCHANGED <<events, sources, elog>>]_vars

\* the child, which has a parent, is in "A" after an ENTRY handler returned,
\* and an event its handler did not handle was copied to the parent
C26_Witness ==
    /\ current_state[1] = "A" /\ parent[1] = 2
    /\ \A t \in Threads : stack[t] = <<>>
    /\ \E c \in 1..Len(events) : elog[c].via = "bubble" /\ elog[c].h = 2

(* -------------------------- invalid arguments ------------------------- *)

\* the NULL machine handle and the NULL event handle
NullHsm == 0
NullEvent == 0

\* the public functions that check their arguments
CheckedOps ==
    {"hsm_schedule_timer", "hsm_cancel_timer", "hsm_get_state_copy",
     "hsm_get_parent", "hsm_get_name", "hsm_change_state",
     "hsm_register_state", "hsm_post_event"}

\* the second argument that the check of a function looks at: a state name
\* for hsm_change_state and hsm_register_state, an event for hsm_post_event
SecondArgs(op) ==
    IF op \in {"hsm_change_state", "hsm_register_state"} THEN StateNames \cup {NULL}
    ELSE IF op = "hsm_post_event" THEN {NullEvent, 1}
    ELSE {NULL}

\* lines 265, 306, 443: if (!h || !arg) return; lines 483, 503, 524, 253,
\* 257: the test of h alone
ArgsValid(op, h, arg) ==
    /\ h # NullHsm
    /\ op \in {"hsm_change_state", "hsm_register_state"} => arg # NULL
    /\ op = "hsm_post_event" => arg # NullEvent

\* results that are 0 where the code returns -1 or ""
ZeroResult(op) ==
    [int |-> 0, bool |-> FALSE, str |-> NULL, hsm |-> NullHsm]

\* what a function returns when its check fails: -1 (line 484), FALSE (504),
\* g_strdup("") (525), NULL (253, 257), nothing for the void functions
Sentinel(op) ==
    [int  |-> IF op = "hsm_schedule_timer" THEN -1 ELSE 0,
     bool |-> FALSE,
     str  |-> IF op = "hsm_get_state_copy" THEN "" ELSE NULL,
     hsm  |-> NullHsm]

\* the activation of a function whose check failed, about to return
InvalidFrame(op) ==
    [Frame("ret", NullHsm, 0, Sentinel(op).str, op, "done")
        EXCEPT !.id = Sentinel(op).int, !.handled = Sentinel(op).bool]

\* a client (the idle main thread or a running handler) calls op with
\* arguments that fail its check: the function returns at once
InvalidCall(t, op, h, arg) ==
    /\ IF t = MainThread THEN MainIdle ELSE InHandler(t)
    /\ ~ArgsValid(op, h, arg)
    /\ stack' = [stack EXCEPT ![t] = Append(@, InvalidFrame(op))]
    /\ UNCHANGED <<uctx, recorded, mem, own, name, current_state, states, parent, thread, timers,
                   next_timer_id, ctxOwner, tdef, sources, tsources, tpc,
                   events, bufFrees, ncalls, tlog, elog, mainRun,
                   is_running, batch, freed, released, stopped>>

\* the early return
InvalidReturn(t) ==
    /\ Len(stack[t]) > 0
    /\ Top(t).f = "ret"
    /\ stack' = [stack EXCEPT ![t] = Rest(t)]
    /\ UNCHANGED <<uctx, recorded, mem, own, name, current_state, states, parent, thread, timers,
                   next_timer_id, ctxOwner, tdef, sources, tsources, tpc,
                   events, bufFrees, ncalls, tlog, elog, mainRun,
                   is_running, batch, freed, released, stopped>>

\* clients post events, request transitions and make calls with invalid
\* arguments
NextArgs ==
    \/ \E h \in Hsms : MainPostEvent(h, StepInput)
    \/ \E h \in Hsms, ns \in StateNames : MainChangeState(h, ns)
    \/ \E h \in Workers : hsm_start(h)
    \/ \E h \in Hsms : hsm_run(h)
    \/ \E t \in Threads, op \in CheckedOps, h \in Hsms \cup {NullHsm} :
          \E arg \in SecondArgs(op) : InvalidCall(t, op, h, arg)
    \/ \E t \in Threads : InvalidReturn(t)
    \/ PostRuntimeStep

SpecArgs == Init /\ [][NextArgs]_vars

\* the activations, on thread t, of functions whose argument check failed
InvalidFrames(t) == {i \in 1..Len(stack[t]) : stack[t][i].f = "ret"}

\* what each of them is about to return
SentinelResults ==
    \A t \in Threads : \A i \in InvalidFrames(t) :
        LET fr == stack[t][i] IN
        /\ fr.k = "hsm_schedule_timer" => fr.id = -1
        /\ fr.k = "hsm_cancel_timer" => fr.handled = FALSE
        /\ fr.k = "hsm_get_state_copy" => fr.s = ""
        /\ fr.k = "hsm_get_parent" => fr.h = NullHsm
        /\ fr.k = "hsm_get_name" => fr.s = NULL

\* C27: a call whose machine is NULL (or whose state name or event is NULL
\* for hsm_change_state, hsm_register_state and hsm_post_event) changes no
\* machine state, queues nothing and calls no handler, and returns -1 for
\* hsm_schedule_timer, FALSE for hsm_cancel_timer, "" for hsm_get_state_copy
\* and NULL for hsm_get_parent and hsm_get_name.
C27_InvalidArgsNoop ==
    /\ SentinelResults
    /\ [][/\ SentinelResults'
          /\ \A t \in Threads :
               (\E op \in CheckedOps, h \in Hsms \cup {NullHsm} :
                   \E arg \in SecondArgs(op) : InvalidCall(t, op, h, arg))
               => /\ UNCHANGED <<current_state, states, parent, timers,
                                 next_timer_id, sources, tsources, events,
                                 elog, tlog, ctxOwner>>
                  /\ Len(stack'[t]) = Len(stack[t]) + 1
                  /\ stack'[t][Len(stack'[t])].f = "ret"]_vars

\* a handler of a running machine called hsm_schedule_timer with a NULL
\* machine and is about to get -1
C27_Witness ==
    \E t \in Threads :
        /\ Len(stack[t]) > 1
        /\ Top(t).f = "ret" /\ Top(t).k = "hsm_schedule_timer" /\ Top(t).id = -1
        /\ stack[t][Len(stack[t]) - 1].f = "hdl"
        /\ timers = [h \in Hsms |-> {}] /\ next_timer_id = [h \in Hsms |-> 1]

(* ---------------------- properties of the registry -------------------- *)

\* thread t's step is a registration of name n with handler f by a handler of h
Registers(t, h, n, f) == Len(stack[t]) > 0 /\ Top(t).h = h /\ HandlerRegister(t, n, f)

\* C28: a registration makes its name resolve to the handler and user_data
\* just given, in place of any earlier entry of that name, and leaves the
\* other names alone; nothing else changes the registry; every handler call
\* of a dispatch or transition takes the entry the registry holds for the
\* state at that moment.
C28_LatestRegistration ==
    [][/\ \A t \in Threads, h \in Hsms, n \in StateNames, f \in Handlers :
            Registers(t, h, n, f)
            => /\ DOMAIN states'[h] = DOMAIN states[h] \cup {n}
               /\ states'[h][n] = [handler |-> f, user_data |-> h]
               /\ \A m \in DOMAIN states[h] \ {n} : states'[h][m] = states[h][m]
               /\ \A g \in Hsms \ {h} : states'[g] = states[g]
       /\ states' # states
            => \E t \in Threads, n \in StateNames, f \in Handlers :
                  HandlerRegister(t, n, f)
       /\ \A t \in Threads :
            CallsHandler(t)
            => /\ Called(t).s \in DOMAIN states[Called(t).h]
               /\ Called(t).fn = states[Called(t).h][Called(t).s].handler
               /\ Called(t).ud = states[Called(t).h][Called(t).s].user_data]_vars

\* "A" of the child was registered again with the second handler, by a
\* handler, and a later dispatch of an event calls that handler
C28_Witness ==
    /\ states[1]["A"].handler = 2
    /\ \E t \in Threads :
          /\ InHandler(t)
          /\ Top(t).h = 1 /\ Top(t).s = "A" /\ Top(t).k = "STEP" /\ Top(t).fn = 2

(* ------------------------ hsm_post_change_state ----------------------- *)

\* lines 324-326: hsm_post_change_state(h, ns) calls hsm_change_state(h, ns)
hsm_post_change_state(t, h, ns, stk) == hsm_change_state(t, h, ns, stk)

\* a handler calls hsm_post_change_state on any machine
HandlerPostChangeState(t, h, ns) ==
    /\ InHandler(t)
    /\ ncalls < MaxCalls
    /\ ncalls' = ncalls + 1
    /\ hsm_post_change_state(t, h, ns, stack[t])
    /\ UNCHANGED <<uctx, recorded, mem, own, name, current_state, states, parent, thread, timers,
                   next_timer_id, tdef, tsources, tpc, events, bufFrees, tlog, elog, mainRun,
                   is_running, batch, freed, released, stopped>>

\* the main thread starts the machines with hsm_change_state and posts events,
\* the handlers request their transitions with hsm_post_change_state
NextPostChange ==
    \/ \E h \in Hsms : MainPostEvent(h, StepInput)
    \/ \E h \in Hsms, ns \in StateNames : MainChangeState(h, ns)
    \/ \E h \in Workers : hsm_start(h)
    \/ \E h \in Hsms : hsm_run(h)
    \/ \E t \in Threads, h \in Hsms, ns \in StateNames : HandlerPostChangeState(t, h, ns)
    \/ PostRuntimeStep

SpecPostChange == Init /\ [][NextPostChange]_vars

\* C29: hsm_post_change_state(M, T) never starts the transition inside the
\* call: whoever calls it, a handler on M's own context included, gets its
\* stack back as it was, with no EXIT or ENTRY handler called, and the
\* transition is queued on M's context as a later work item.
C29_PostChangeAlwaysAsync ==
    [][\A t \in Threads, h \in Hsms, ns \in StateNames :
          HandlerPostChangeState(t, h, ns)
          => /\ stack'[t] = stack[t]
             /\ sources' = [sources EXCEPT ![ctx(h)] =
                               Append(@, ChangeReq(t, h, ns))]]_vars

(* ============ the event functions on their own (lines 124-160) ======== *)

\* HsmEvent objects a client makes in a run, copies for a parent included
MaxEvents == 2

\* the variables of the runtime, which the event functions do not touch
runtimeVars ==
    <<own, name, current_state, states, parent, thread, timers,
      next_timer_id, ctxOwner, tdef, sources, tsources, tpc, stack,
      events, bufFrees, ncalls, tlog, elog, mainRun,
      is_running, batch, freed, released, stopped, recorded, uctx>>

\* what the client passes: a kind, its name and source buffers or NULL (0),
\* a payload handle or NULL (0), a sequence number
NullStr == 0
Payload == 9
KindArgs == {"START", "STEP"}
NameArgs == {NullStr, CallerName}
SourceArgs == {NullStr, CallerSource}
DataArgs == {0, Payload}
SeqArgs == {0, 7}

\* the text a string pointer points to, NULL for the NULL pointer
TextAt(m, p) == IF p = NullStr THEN NULL ELSE m.str[p].text

\* a duplication that hands the caller's pointer back
ShareString(m, p) == [ptr |-> p, m |-> m]

\* lines 127 and 130: p ? g_strdup(p) : NULL, the new pointer and the memory
g_strdup(m, p) ==
    IF p = NullStr THEN [ptr |-> NullStr, m |-> m]
    ELSE [ptr |-> Len(m.str) + 1,
          m |-> [m EXCEPT !.str = Append(@, [text |-> m.str[p].text, frees |-> 0])]]

\* lines 124-132: hsm_event_new(type, name, data, source, seq) on memory m;
\* made keeps what the arguments were worth at the call
EventNew(m, type, nm, data, source, seq) ==
    LET n == g_strdup(m, nm)
        s == g_strdup(n.m, source)
    IN [s.m EXCEPT !.obj = Append(@,
            [type |-> type, name |-> n.ptr, data |-> data, seq |-> seq,
             source |-> s.ptr, frees |-> 0,
             made |-> [type |-> type, name |-> TextAt(m, nm), data |-> data,
                       source |-> TextAt(m, source), seq |-> seq]])]

\* g_free(p) on memory m; g_free(NULL) does nothing
g_free(m, p) ==
    IF p = NullStr THEN m ELSE [m EXCEPT !.str[p].frees = @ + 1]

\* lines 134-140: hsm_event_free(ev) frees name, source and the object, and
\* leaves ev->data alone
EventFree(m, o) ==
    [g_free(g_free(m, m.obj[o].name), m.obj[o].source) EXCEPT !.obj[o].frees = @ + 1]

\* lines 142-160: the accessors; kind 0 is HSM_EVT_START
hsm_event_get_type(o) == IF o # NullEvent THEN mem.obj[o].type ELSE "START"
hsm_event_get_name(o) == IF o # NullEvent THEN mem.obj[o].name ELSE NullStr
hsm_event_get_source(o) == IF o # NullEvent THEN mem.obj[o].source ELSE NullStr
hsm_event_get_seq(o) == IF o # NullEvent THEN mem.obj[o].seq ELSE 0
hsm_event_get_data(o) == IF o # NullEvent THEN mem.obj[o].data ELSE 0

\* the events that exist
LiveEvents == {o \in 1..Len(mem.obj) : mem.obj[o].frees = 0}

\* the client makes an event
ClientEventNew(type, nm, data, source, seq) ==
    /\ Len(mem.obj) < MaxEvents
    /\ mem' = EventNew(mem, type, nm, data, source, seq)
    /\ UNCHANGED runtimeVars

\* the client writes another text into one of its own strings
ClientOverwrite(p) ==
    /\ mem.str[p].text # "other"
    /\ mem' = [mem EXCEPT !.str[p].text = "other"]
    /\ UNCHANGED runtimeVars

\* line 427: the copy hsm_process_post makes of event o for the parent
ClientBubble(o) ==
    /\ o \in LiveEvents
    /\ Len(mem.obj) < MaxEvents
    /\ mem' = [EventNew(mem, mem.obj[o].type, mem.obj[o].name, mem.obj[o].data,
                        mem.obj[o].source, mem.obj[o].seq)
                  EXCEPT !.obj[Len(mem.obj) + 1].made = mem.obj[o].made]
    /\ UNCHANGED runtimeVars

\* hsm_event_free(o), by the runtime after the dispatch
ClientEventFree(o) ==
    /\ o \in LiveEvents
    /\ mem' = EventFree(mem, o)
    /\ UNCHANGED runtimeVars

NextEvent ==
    \/ \E type \in KindArgs, nm \in NameArgs, data \in DataArgs,
          source \in SourceArgs, seq \in SeqArgs :
          ClientEventNew(type, nm, data, source, seq)
    \/ \E p \in {CallerName, CallerSource} : ClientOverwrite(p)
    \/ \E o \in 1..MaxEvents : ClientBubble(o)
    \/ \E o \in 1..MaxEvents : ClientEventFree(o)

SpecEvent == Init /\ [][NextEvent]_vars

\* C30: as long as an event exists its accessors return the kind, name,
\* source, seq and data it was made with; its name and source are strings of
\* its own (NULL when NULL was passed), not freed and not the caller's, so
\* the caller's later writes do not show; the payload is never read or freed;
\* the accessors of the NULL event return kind 0, NULL, NULL, 0 and NULL.
C30_EventRoundTrip ==
    /\ \A o \in LiveEvents :
          LET made == mem.obj[o].made IN
          /\ hsm_event_get_type(o) = made.type
          /\ TextAt(mem, hsm_event_get_name(o)) = made.name
          /\ TextAt(mem, hsm_event_get_source(o)) = made.source
          /\ hsm_event_get_seq(o) = made.seq
          /\ hsm_event_get_data(o) = made.data
          /\ \A p \in {hsm_event_get_name(o), hsm_event_get_source(o)} \ {NullStr} :
                /\ p \notin {CallerName, CallerSource}
                /\ mem.str[p].frees = 0
                /\ \A q \in LiveEvents \ {o} :
                      p \notin {mem.obj[q].name, mem.obj[q].source}
    /\ \A p \in 1..Len(mem.str) : mem.str[p].frees <= 1
    /\ mem.payload = [reads |-> 0, frees |-> 0]
    /\ hsm_event_get_type(NullEvent) = "START"
    /\ hsm_event_get_name(NullEvent) = NullStr
    /\ hsm_event_get_source(NullEvent) = NullStr
    /\ hsm_event_get_seq(NullEvent) = 0
    /\ hsm_event_get_data(NullEvent) = 0

\* an event made with a name, a payload and seq 7 but no source was copied
\* for a parent and freed; the copy exists, and the client has overwritten
\* the name string it passed
C30_Witness ==
    /\ Len(mem.obj) = 2
    /\ mem.obj[1].frees = 1 /\ 2 \in LiveEvents
    /\ mem.obj[1].made.name = "done" /\ mem.obj[1].made.source = NULL
    /\ mem.obj[2].made = mem.obj[1].made
    /\ hsm_event_get_data(2) = Payload /\ hsm_event_get_seq(2) = 7
    /\ mem.str[CallerName].text = "other"
    /\ TextAt(mem, hsm_event_get_name(2)) = "done"

(* ===================== scenario: basic lifecycle ====================== *)

\* the steps of the runtime on the worker: the loop, the dispatches and the
\* transitions, without the handlers' own steps
S1RuntimeStep ==
    \/ \E m \in Workers : hsm_thread_func(m)
    \/ \E t \in Workers : g_main_loop_run(t)
    \/ \E t \in Workers : DispatchIdle(t)
    \/ \E t \in Workers : ProcessPostLookup(t)
    \/ \E t \in Workers : ProcessPostBubble(t)
    \/ \E t \in Workers : ChangeStart(t)
    \/ \E t \in Workers : ChangeCommit(t)
    \/ \E t \in Workers : ChangeDone(t)
    \/ \E t \in Workers : LoopReturn(t)

\* the event of the scenario: {STEP, "go"}
GoInput == [type |-> "STEP", name |-> "go", data |-> 0, source |-> NULL, seq |-> 0]

\* the handler registered for every state first records the state name it is
\* passed and the kind of the event
S1Record(t) ==
    /\ InHandler(t) /\ Top(t).pc = "run"
    /\ recorded' = Append(recorded, <<Top(t).s, Top(t).k>>)
    /\ stack' = [stack EXCEPT ![t] = SetTop(t, [Top(t) EXCEPT !.pc = "body"])]
    /\ UNCHANGED <<uctx, mem, own, name, current_state, states, parent, thread, timers,
                   next_timer_id, ctxOwner, tdef, sources, tsources, tpc,
                   events, bufFrees, ncalls, tlog, elog, mainRun,
                   is_running, batch, freed, released, stopped>>

\* on STEP in state "A" it calls hsm_change_state(h, "B"); on anything else
\* it does nothing
S1Body(t) ==
    /\ InHandler(t) /\ Top(t).pc = "body"
    /\ LET after == SetTop(t, [Top(t) EXCEPT !.pc = "ret"]) IN
       IF Top(t).k = "STEP" /\ Top(t).s = "A"
       THEN /\ ncalls' = ncalls + 1
            /\ hsm_change_state(t, Top(t).h, "B", after)
       ELSE /\ stack' = [stack EXCEPT ![t] = after]
            /\ UNCHANGED <<ncalls, ctxOwner, sources>>
    /\ UNCHANGED <<uctx, recorded, mem, own, name, current_state, states, parent,
                   thread, timers, next_timer_id, tdef, tsources, tpc,
                   events, bufFrees, tlog, elog, mainRun,
                   is_running, batch, freed, released, stopped>>

\* and returns TRUE
S1Return(t) ==
    /\ InHandler(t) /\ Top(t).pc = "ret"
    /\ HandlerReturn(t, TRUE)

\* the sequence the scenario expects
S1Expected == <<<<"A", "ENTRY">>, <<"A", "STEP">>, <<"A", "EXIT">>, <<"B", "ENTRY">>>>

\* the main thread stops the machine once the last record it waits for is
\* there
S1Stop ==
    /\ MainIdle
    /\ recorded = S1Expected
    /\ stopped[1] = ""
    /\ hsm_stop(1, "other")
    /\ UNCHANGED <<uctx, recorded, mem, own, name, current_state, states, parent, thread, timers,
                   next_timer_id, ctxOwner, tdef, sources, tsources, tpc, stack,
                   events, bufFrees, ncalls, tlog, elog, mainRun, batch, freed,
                   released>>

\* the main thread: transition to "A", then post the event, then stop; the
\* worker is started at any moment before the stop
S1Main ==
    \/ ncalls = 0 /\ MainChangeState(1, "A")
    \/ ncalls = 1 /\ MainPostEvent(1, GoInput)
    \/ hsm_start(1)
    \/ S1Stop

\* machine 1 has a private context
InitS1 == Init /\ own[1]

NextS1 ==
    \/ S1Main
    \/ \E t \in Threads : S1Record(t)
    \/ \E t \in Threads : S1Body(t)
    \/ \E t \in Threads : S1Return(t)
    \/ S1RuntimeStep

\* the main thread goes on and the worker is scheduled
SpecS1 == InitS1 /\ [][NextS1]_vars /\ WF_vars(NextS1)

\* what was recorded so far is the beginning of that sequence
S1Prefix ==
    /\ Len(recorded) <= Len(S1Expected)
    /\ \A i \in 1..Len(recorded) : recorded[i] = S1Expected[i]

\* C31: the handlers record A/ENTRY, A/STEP, A/EXIT, B/ENTRY: at every moment
\* the record is a beginning of that sequence, and it gets complete.
C31_BasicLifecycle ==
    /\ S1Prefix
    /\ [][S1Prefix']_vars
    /\ <>(recorded = S1Expected)

\* the four handler calls were made and returned, the machine is in "B"
C31_Witness ==
    /\ recorded = S1Expected
    /\ current_state[1] = "B"
    /\ \A t \in Threads : stack[t] = <<>>

(* ------------------- scenario: cross-module flow ---------------------- *)

\* main of the demo: modA and modB have private contexts and worker threads,
\* the scheduler uses the default context and is run by the main thread
modA == 1
scheduler == 2
modB == 3
FlowHsms == {modA, scheduler, modB}
FlowThreads == {MainThread, modA, modB}
FlowCtxs == {DefaultCtx} \cup FlowHsms

\* the handler functions of the demo
ModuleFn == 1
FlowFn == 2

A_STATES == {"A1", "A2", "A3", "A4", "A5"}
B_STATES == {"B1", "B2", "B3", "B4", "B5"}

\* enum FlowStep: the state of step number k (FLOW_A1 is step 0), and
\* FLOW_DONE, the step after the last
FlowOrder == <<"A1", "A2", "B1", "B2", "B3", "B4", "A3", "A4", "B5", "A5">>
FLOW_DONE == Len(FlowOrder)

\* the machine the switch of flow_handler addresses for a state
ModuleOf(s) == IF s \in A_STATES THEN modA ELSE modB

\* ModuleCtx.name of a module
CtxName(h) == IF h = modA THEN "A" ELSE "B"

\* FlowCtx, read off what flow_handler has recorded: step is incremented once
\* for every RESULT_OK, a ready flag is set by the module_ready of its module
FlowStep == Cardinality({i \in 1..Len(recorded) : recorded[i][1] = "done"})
ModuleReady(nm) == \E i \in 1..Len(recorded) : recorded[i] = <<"ready", nm>>

\* hsm_set_parent(h, p), lines 246-250
hsm_set_parent(h, p) == parent' = [parent EXCEPT ![h] = p]

\* the state after lines 209-218 of main: hsm_new and hsm_register_state for
\* the two modules.  The fields of the scheduler have the values lines
\* 226-227 give them: no other thread reads them before hsm_set_parent.
InitFlow ==
    /\ own = [h \in FlowHsms |-> h # scheduler]
    /\ name = [h \in FlowHsms |->
                 IF h = modA THEN "modA" ELSE IF h = modB THEN "modB" ELSE "scheduler"]
    /\ current_state = [h \in FlowHsms |-> NULL]
    /\ states = [h \in FlowHsms |->
                   IF h = modA THEN [n \in A_STATES |-> hsm_state_new(ModuleFn, h)]
                   ELSE IF h = modB THEN [n \in B_STATES |-> hsm_state_new(ModuleFn, h)]
                   ELSE [n \in {"flow"} |-> hsm_state_new(FlowFn, h)]]
    /\ parent = [h \in FlowHsms |-> 0]
    /\ thread = [h \in FlowHsms |-> FALSE]
    /\ timers = [h \in FlowHsms |-> {}]
    /\ next_timer_id = [h \in FlowHsms |-> 1]
    /\ ctxOwner = [c \in FlowCtxs |-> NoThread]
    /\ tdef = [t \in FlowThreads |-> NoCtx]
    /\ sources = [c \in FlowCtxs |-> <<>>]
    /\ tsources = [c \in FlowCtxs |-> {}]
    /\ tpc = [t \in FlowThreads |-> IF t = MainThread THEN "script" ELSE "idle"]
    /\ stack = [t \in FlowThreads |-> <<>>]
    /\ events = <<>>
    /\ bufFrees = <<>>
    /\ ncalls = 0
    /\ tlog = <<>>
    /\ elog = <<>>
    /\ mainRun = 0
    /\ is_running = [h \in FlowHsms |-> FALSE]
    /\ batch = [t \in FlowThreads |-> NoBatch]
    /\ freed = {}
    /\ released = {}
    /\ stopped = [h \in FlowHsms |-> ""]
    /\ mem = MemInit
    /\ recorded = <<>>
    /\ uctx = <<>>

\* lines 219-220 and 228 of main: the hsm_change_state calls, in order
FlowMainChange ==
    /\ MainIdle
    /\ \/ ncalls = 0 /\ hsm_change_state(MainThread, modA, "A1", <<>>)
       \/ ncalls = 1 /\ hsm_change_state(MainThread, modB, "B1", <<>>)
       \/ /\ ncalls = 2 /\ thread[modA] /\ thread[modB]
          /\ hsm_change_state(MainThread, scheduler, "flow", <<>>)
    /\ ncalls' = ncalls + 1
    /\ UNCHANGED <<uctx, recorded, mem, own, name, current_state, states, parent, thread, timers,
                   next_timer_id, tdef, tsources, tpc, events, bufFrees, tlog, elog, mainRun,
                   is_running, batch, freed, released, stopped>>

\* lines 221-222 of main: hsm_start(modA, TRUE), then hsm_start(modB, TRUE)
FlowMainStart ==
    /\ ncalls = 2
    /\ \/ ~thread[modA] /\ hsm_start(modA)
       \/ thread[modA] /\ ~thread[modB] /\ hsm_start(modB)

\* lines 229-230 of main: hsm_set_parent(modA, scheduler), then
\* hsm_set_parent(modB, scheduler)
FlowMainSetParent ==
    /\ MainIdle
    /\ \/ ncalls = 3 /\ hsm_set_parent(modA, scheduler)
       \/ ncalls = 4 /\ hsm_set_parent(modB, scheduler)
    /\ ncalls' = ncalls + 1
    /\ UNCHANGED <<uctx, recorded, mem, own, name, current_state, states, thread, timers,
                   next_timer_id, ctxOwner, tdef, sources, tsources, tpc, stack,
                   events, bufFrees, tlog, elog, mainRun,
                   is_running, batch, freed, released, stopped>>

\* lines 231-232 of main: hsm_start(scheduler, FALSE) does nothing, then
\* hsm_run(scheduler), once
FlowMainRun ==
    /\ ncalls = 5
    /\ stopped[scheduler] = ""
    /\ hsm_run(scheduler)

\* the handler on top of t's stack goes to its return statement with result b
ToReturn(t, b) == SetTop(t, [Top(t) EXCEPT !.pc = "ret", !.handled = b])

\* module_handler lines 63-77 and 93: ENTRY of "A1" or "B1" posts module_ready
\* to the parent when one is set, and TRUE is returned; an event that is not
\* ENTRY, START or TIMEOUT gets FALSE
ModuleEntry(t) ==
    /\ InHandler(t) /\ Top(t).fn = ModuleFn /\ Top(t).pc = "run"
    /\ Top(t).k \notin {"START", "TIMEOUT"}
    /\ IF Top(t).k = "ENTRY" /\ Top(t).s \in {"A1", "B1"} /\ parent[Top(t).h] # 0
       THEN hsm_post_event(t, parent[Top(t).h],
                [type |-> "STEP", name |-> "module_ready", data |-> 0,
                 source |-> CtxName(Top(t).ud), seq |-> 0],
                ToReturn(t, TRUE))
       ELSE /\ stack' = [stack EXCEPT ![t] = ToReturn(t, Top(t).k = "ENTRY")]
            /\ UNCHANGED <<ctxOwner, sources, events, bufFrees, elog>>
    /\ UNCHANGED <<uctx, recorded, mem, own, name, current_state, states, parent, thread, timers,
                   next_timer_id, tdef, tsources, tpc, ncalls, tlog, mainRun,
                   is_running, batch, freed, released, stopped>>

\* module_handler lines 78-83: START arms a timer
ModuleStart(t) ==
    /\ InHandler(t) /\ Top(t).fn = ModuleFn /\ Top(t).pc = "run"
    /\ Top(t).k = "START"
    /\ hsm_schedule_timer(Top(t).h)
    /\ stack' = [stack EXCEPT ![t] = ToReturn(t, TRUE)]
    /\ UNCHANGED <<uctx, recorded, mem, own, name, current_state, states, parent, thread, ctxOwner,
                   tdef, sources, tpc, events, bufFrees, ncalls, elog, mainRun,
                   is_running, batch, freed, released, stopped>>

\* module_handler lines 84-92: TIMEOUT posts RESULT_OK, named after the state,
\* to the parent when one is set
ModuleTimeout(t) ==
    /\ InHandler(t) /\ Top(t).fn = ModuleFn /\ Top(t).pc = "run"
    /\ Top(t).k = "TIMEOUT"
    /\ IF parent[Top(t).h] # 0
       THEN hsm_post_event(t, parent[Top(t).h],
                [type |-> "RESULT_OK", name |-> Top(t).s, data |-> 0,
                 source |-> CtxName(Top(t).ud), seq |-> 0],
                ToReturn(t, TRUE))
       ELSE /\ stack' = [stack EXCEPT ![t] = ToReturn(t, TRUE)]
            /\ UNCHANGED <<ctxOwner, sources, events, bufFrees, elog>>
    /\ UNCHANGED <<uctx, recorded, mem, own, name, current_state, states, parent, thread, timers,
                   next_timer_id, tdef, tsources, tpc, ncalls, tlog, mainRun,
                   is_running, batch, freed, released, stopped>>

\* the event handed to the handler on top of t's stack
HandlerEvent(t) == IF Top(t).ev = 0 THEN Top(t).syn ELSE events[Top(t).ev]

\* the STEP named module_ready
IsReady(t) == Top(t).k = "STEP" /\ HandlerEvent(t).name = "module_ready"

\* flow_handler lines 101-105 and 191: ENTRY returns TRUE, and an event that
\* is neither a module_ready STEP nor RESULT_OK gets FALSE
FlowEntry(t) ==
    /\ InHandler(t) /\ Top(t).fn = FlowFn /\ Top(t).pc = "run"
    /\ ~IsReady(t) /\ Top(t).k # "RESULT_OK"
    /\ stack' = [stack EXCEPT ![t] = ToReturn(t, Top(t).k = "ENTRY")]
    /\ UNCHANGED <<uctx, recorded, mem, own, name, current_state, states, parent, thread, timers,
                   next_timer_id, ctxOwner, tdef, sources, tsources, tpc,
                   events, bufFrees, ncalls, tlog, elog, mainRun,
                   is_running, batch, freed, released, stopped>>

\* flow_handler lines 108-129: module_ready sets the flag of its source, and
\* once both flags are set START "A1" is posted to modA
FlowReady(t) ==
    /\ InHandler(t) /\ Top(t).fn = FlowFn /\ Top(t).pc = "run"
    /\ IsReady(t)
    /\ recorded' = IF HandlerEvent(t).source \in {"A", "B"}
                   THEN Append(recorded, <<"ready", HandlerEvent(t).source>>)
                   ELSE recorded
    /\ IF ModuleReady("A")' /\ ModuleReady("B")'
       THEN hsm_post_event(t, modA,
                [type |-> "START", name |-> "A1", data |-> 0,
                 source |-> "flow", seq |-> 0],
                ToReturn(t, TRUE))
       ELSE /\ stack' = [stack EXCEPT ![t] = ToReturn(t, TRUE)]
            /\ UNCHANGED <<ctxOwner, sources, events, bufFrees, elog>>
    /\ UNCHANGED <<uctx, mem, own, name, current_state, states, parent, thread, timers,
                   next_timer_id, tdef, tsources, tpc, ncalls, tlog, mainRun,
                   is_running, batch, freed, released, stopped>>

\* flow_handler lines 132-137, and the hsm_change_state of the case taken
\* (lines 138-182); FLOW_DONE calls hsm_stop(h), lines 183-186
FlowResult(t) ==
    /\ InHandler(t) /\ Top(t).fn = FlowFn /\ Top(t).pc = "run"
    /\ Top(t).k = "RESULT_OK"
    /\ recorded' = Append(recorded, <<"done", HandlerEvent(t).name>>)
    /\ LET step == FlowStep + 1 IN
       IF step < FLOW_DONE
       THEN /\ hsm_change_state(t, ModuleOf(FlowOrder[step + 1]), FlowOrder[step + 1],
                                SetTop(t, [Top(t) EXCEPT !.pc = "start"]))
            /\ UNCHANGED <<is_running, stopped>>
       ELSE /\ stack' = [stack EXCEPT ![t] = ToReturn(t, TRUE)]
            /\ IF step = FLOW_DONE THEN hsm_stop(Top(t).h, "handler")
               ELSE UNCHANGED <<is_running, stopped>>
            /\ UNCHANGED <<ctxOwner, sources>>
    /\ UNCHANGED <<uctx, mem, own, name, current_state, states, parent, thread, timers,
                   next_timer_id, tdef, tsources, tpc, events, bufFrees, ncalls,
                   tlog, elog, mainRun, batch, freed, released>>

\* the hsm_post_event of the case taken: START, named after the state of the
\* step, to its module
FlowResultPost(t) ==
    /\ InHandler(t) /\ Top(t).fn = FlowFn /\ Top(t).pc = "start"
    /\ hsm_post_event(t, ModuleOf(FlowOrder[FlowStep + 1]),
           [type |-> "START", name |-> FlowOrder[FlowStep + 1], data |-> 0,
            source |-> "flow", seq |-> 0],
           ToReturn(t, TRUE))
    /\ UNCHANGED <<uctx, recorded, mem, own, name, current_state, states, parent, thread, timers,
                   next_timer_id, tdef, tsources, tpc, ncalls, tlog, mainRun,
                   is_running, batch, freed, released, stopped>>

\* the return statement of either handler
ReturnStatement(t) ==
    /\ InHandler(t) /\ Top(t).pc = "ret"
    /\ HandlerReturn(t, Top(t).handled)

FlowRuntimeStep ==
    \/ \E m \in {modA, modB} : hsm_thread_func(m)
    \/ \E t \in FlowThreads : g_main_loop_run(t)
    \/ \E t \in FlowThreads : DispatchIdle(t)
    \/ \E t \in FlowThreads : \E h \in FlowHsms : \E src \in tsources[ctx(h)] :
          TimerDispatch(t, src)
    \/ \E t \in FlowThreads : TimerCbPost(t)
    \/ \E t \in FlowThreads : TimerCbRemove(t)
    \/ \E t \in FlowThreads : ProcessPostLookup(t)
    \/ \E t \in FlowThreads : ProcessPostBubble(t)
    \/ \E t \in FlowThreads : ChangeStart(t)
    \/ \E t \in FlowThreads : ChangeCommit(t)
    \/ \E t \in FlowThreads : ChangeDone(t)
    \/ LoopReturn(MainThread)

NextFlow ==
    \/ FlowMainChange
    \/ FlowMainStart
    \/ FlowMainSetParent
    \/ FlowMainRun
    \/ \E t \in FlowThreads : ModuleEntry(t)
    \/ \E t \in FlowThreads : ModuleStart(t)
    \/ \E t \in FlowThreads : ModuleTimeout(t)
    \/ \E t \in FlowThreads : FlowEntry(t)
    \/ \E t \in FlowThreads : FlowReady(t)
    \/ \E t \in FlowThreads : FlowResult(t)
    \/ \E t \in FlowThreads : FlowResultPost(t)
    \/ \E t \in FlowThreads : ReturnStatement(t)
    \/ FlowRuntimeStep

\* every thread is scheduled and every timer elapses
SpecFlow == InitFlow /\ [][NextFlow]_vars /\ WF_vars(NextFlow)

\* the ten completions in the order of the business flow
FlowDones == [i \in 1..Len(FlowOrder) |-> <<"done", FlowOrder[i]>>]

\* what the scheduler may have recorded when the flow is complete: the two
\* notifications in either order, then the ten completions
FlowExpected ==
    {<<<<"ready", "A">>, <<"ready", "B">>>> \o FlowDones,
     <<<<"ready", "B">>, <<"ready", "A">>>> \o FlowDones}

\* hsm_run(scheduler) has returned to main
FlowRunReturned == ncalls = 5 /\ stopped[scheduler] # "" /\ MainIdle

\* C32: in every interleaving the scheduler gets both notifications, then the
\* ten completions in order, and hsm_run(scheduler) returns: no run comes to
\* rest before that.
C32_FlowCompletes ==
    (~ENABLED NextFlow) => (recorded \in FlowExpected /\ FlowRunReturned)

\* the complete flow was recorded and hsm_run(scheduler) has returned
C32_Witness == recorded \in FlowExpected /\ FlowRunReturned

(* --------------------- scenario: device heartbeat --------------------- *)

\* main of the device demo, for one of its devices: device1 has a private
\* context and a worker thread, the controller is its parent, uses the default
\* context and is run by the main thread
device1 == 1
controller == 2

\* the timeouts that elapse in a run
MaxTimeouts == 6

\* main lines 449-456: the states of a device and their handlers
DeviceHandlers ==
    [disconnected |-> "disconnected_state_handler",
     connecting   |-> "connecting_state_handler",
     connected    |-> "connected_state_handler",
     reconnecting |-> "reconnecting_state_handler",
     error        |-> "error_state_handler"]

\* device_context_new: the fields of DeviceContext the handlers decide on
device_context_new ==
    [retry_count |-> 0, max_retries |-> 5, heartbeat_timer |-> 0,
     heartbeat_timeout |-> 0]

\* the state after lines 429-456 of main, the transition of line 431 left to
\* the main thread's first step
InitDevice ==
    /\ own = [h \in Hsms |-> h = device1]
    /\ name = [h \in Hsms |-> IF h = device1 THEN "Device-001" ELSE "controller"]
    /\ current_state = [h \in Hsms |-> NULL]
    /\ states = [h \in Hsms |->
                   IF h = device1
                   THEN [n \in DOMAIN DeviceHandlers |->
                            hsm_state_new(DeviceHandlers[n], device1)]
                   ELSE [n \in {"monitoring"} |-> hsm_state_new("controller_handler", 0)]]
    /\ parent = [h \in Hsms |-> IF h = device1 THEN controller ELSE 0]
    /\ thread = [h \in Hsms |-> FALSE]
    /\ timers = [h \in Hsms |-> {}]
    /\ next_timer_id = [h \in Hsms |-> 1]
    /\ ctxOwner = [c \in Ctxs |-> NoThread]
    /\ tdef = [t \in Threads |-> NoCtx]
    /\ sources = [c \in Ctxs |-> <<>>]
    /\ tsources = [c \in Ctxs |-> {}]
    /\ tpc = [t \in Threads |-> IF t = MainThread THEN "script" ELSE "idle"]
    /\ stack = [t \in Threads |-> <<>>]
    /\ events = <<>>
    /\ bufFrees = <<>>
    /\ ncalls = 0
    /\ tlog = <<>>
    /\ elog = <<>>
    /\ mainRun = 0
    /\ is_running = [h \in Hsms |-> FALSE]
    /\ batch = [t \in Threads |-> NoBatch]
    /\ freed = {}
    /\ released = {}
    /\ stopped = [h \in Hsms |-> ""]
    /\ mem = MemInit
    /\ recorded = <<>>
    /\ uctx = device_context_new

\* lines 431 and 459 of main: hsm_change_state(controller, "monitoring"), then
\* hsm_change_state(device1, "disconnected")
DeviceMainChange ==
    /\ MainIdle
    /\ \/ ncalls = 0 /\ hsm_change_state(MainThread, controller, "monitoring", <<>>)
       \/ ncalls = 1 /\ hsm_change_state(MainThread, device1, "disconnected", <<>>)
    /\ ncalls' = ncalls + 1
    /\ UNCHANGED <<uctx, recorded, mem, own, name, current_state, states, parent, thread,
                   timers, next_timer_id, tdef, tsources, tpc, events, bufFrees, tlog,
                   elog, mainRun, is_running, batch, freed, released, stopped>>

\* line 464 of main: hsm_start(device1, TRUE)
DeviceMainStart == ncalls = 2 /\ ~thread[device1] /\ hsm_start(device1)

\* line 484 of main: hsm_run(controller)
DeviceMainRun == ncalls = 2 /\ thread[device1] /\ hsm_run(controller)

\* scheduler_handler lines 398-403, run by the loop of the main thread: START
\* "connect" is posted to device1, once
SchedulerConnect ==
    /\ tpc[MainThread] = "loop" /\ stack[MainThread] = <<>>
    /\ ncalls = 2
    /\ ncalls' = ncalls + 1
    /\ hsm_post_event(MainThread, device1,
           [type |-> "START", name |-> "connect", data |-> 0, source |-> "main",
            seq |-> 0], <<>>)
    /\ UNCHANGED <<uctx, recorded, mem, own, name, current_state, states, parent, thread,
                   timers, next_timer_id, tdef, tsources, tpc, tlog, mainRun,
                   is_running, batch, freed, released, stopped>>

\* what a handler of the device does before its return statement: a
\* transition of its own machine, a new timer, a report to the parent when
\* one is set, or nothing
DevChange(t, ns) ==
    /\ hsm_change_state(t, Top(t).h, ns, ToReturn(t, TRUE))
    /\ UNCHANGED <<timers, tsources, next_timer_id, tlog, events, bufFrees, elog>>
DevSchedule(t) ==
    /\ hsm_schedule_timer(Top(t).h)
    /\ stack' = [stack EXCEPT ![t] = ToReturn(t, TRUE)]
    /\ UNCHANGED <<ctxOwner, sources, events, bufFrees, elog>>
DevReport(t, type, nm) ==
    IF parent[Top(t).h] # 0
    THEN hsm_post_event(t, parent[Top(t).h],
             [type |-> type, name |-> nm, data |-> 1, source |-> name[Top(t).h],
              seq |-> 0], ToReturn(t, TRUE))
    ELSE /\ stack' = [stack EXCEPT ![t] = ToReturn(t, TRUE)]
         /\ UNCHANGED <<ctxOwner, sources, events, bufFrees, elog>>
DevPlain(t, b) ==
    /\ stack' = [stack EXCEPT ![t] = ToReturn(t, b)]
    /\ UNCHANGED <<ctxOwner, sources, events, bufFrees, elog,
                   timers, tsources, next_timer_id, tlog>>

\* if (ctx->heartbeat_timer > 0) { hsm_cancel_timer(h, ctx->heartbeat_timer);
\* ctx->heartbeat_timer = 0; } with the other fields as in c
DevCancelHeartbeat(t, c) ==
    IF uctx.heartbeat_timer > 0
    THEN /\ hsm_cancel_timer(t, Top(t).h, uctx.heartbeat_timer)
         /\ uctx' = [c EXCEPT !.heartbeat_timer = 0]
    ELSE /\ uctx' = c
         /\ UNCHANGED <<timers, tsources, tlog>>

\* the handler on top of t's stack is fn, about to run
Running(t, fn) == InHandler(t) /\ Top(t).fn = fn /\ Top(t).pc = "run"

\* the TIMEOUT handed to the handler, as recorded: state, kind, timer id
TimeoutSeen(t) == <<Top(t).s, "TIMEOUT", HandlerEvent(t).seq>>

\* the heartbeat timer the handler has just armed, as recorded
Armed(t) == <<Top(t).s, "armed", next_timer_id'[Top(t).h]>>

\* disconnected_state_handler, lines 112-143
disconnected_state_handler(t) ==
    /\ Running(t, "disconnected_state_handler")
    /\ \/ /\ Top(t).k = "ENTRY"
          /\ DevCancelHeartbeat(t, uctx)
          /\ DevReport(t, "STEP", "device_status")
          /\ UNCHANGED <<next_timer_id, recorded>>
       \/ /\ Top(t).k = "START"
          /\ uctx' = [uctx EXCEPT !.retry_count = 0]
          /\ DevChange(t, "connecting")
          /\ UNCHANGED recorded
       \/ /\ Top(t).k \notin {"ENTRY", "START"}
          /\ DevPlain(t, FALSE)
          /\ UNCHANGED <<uctx, recorded>>
    /\ UNCHANGED <<mem, own, name, current_state, states, parent, thread, tdef, tpc,
                   ncalls, mainRun, is_running, batch, freed, released, stopped>>

\* connecting_state_handler, lines 148-189; g_random_int_range decides whether
\* the connection succeeds
connecting_state_handler(t) ==
    /\ Running(t, "connecting_state_handler")
    /\ \/ /\ Top(t).k = "ENTRY"
          /\ DevSchedule(t)
          /\ UNCHANGED <<uctx, recorded>>
       \/ /\ Top(t).k = "TIMEOUT"
          /\ recorded' = Append(recorded, TimeoutSeen(t))
          /\ \E ok \in BOOLEAN :
                IF ok THEN DevChange(t, "connected") /\ UNCHANGED uctx
                ELSE IF uctx.retry_count < uctx.max_retries
                THEN /\ uctx' = [uctx EXCEPT !.retry_count = @ + 1]
                     /\ DevChange(t, "reconnecting")
                ELSE DevChange(t, "error") /\ UNCHANGED uctx
       \/ /\ Top(t).k = "CANCEL"
          /\ DevChange(t, "disconnected")
          /\ UNCHANGED <<uctx, recorded>>
       \/ /\ Top(t).k \notin {"ENTRY", "TIMEOUT", "CANCEL"}
          /\ DevPlain(t, FALSE)
          /\ UNCHANGED <<uctx, recorded>>
    /\ UNCHANGED <<mem, own, name, current_state, states, parent, thread, tdef, tpc,
                   ncalls, mainRun, is_running, batch, freed, released, stopped>>

\* connected_state_handler, lines 195-267; g_random_int_range decides whether
\* the heartbeat is answered
connected_state_handler(t) ==
    /\ Running(t, "connected_state_handler")
    /\ \/ /\ Top(t).k = "ENTRY"
          /\ hsm_schedule_timer(Top(t).h)
          /\ uctx' = [uctx EXCEPT !.retry_count = 0, !.heartbeat_timeout = 0,
                                  !.heartbeat_timer = next_timer_id'[Top(t).h]]
          /\ recorded' = Append(recorded, Armed(t))
          /\ DevReport(t, "STEP", "device_status")
       \/ /\ Top(t).k = "TIMEOUT"
          /\ \E ok \in BOOLEAN :
                IF ok \/ uctx.heartbeat_timeout + 1 < 3
                THEN /\ DevSchedule(t)
                     /\ uctx' = [uctx EXCEPT
                           !.heartbeat_timeout = IF ok THEN 0 ELSE @ + 1,
                           !.heartbeat_timer = next_timer_id'[Top(t).h]]
                     /\ recorded' = recorded \o <<TimeoutSeen(t), Armed(t)>>
                ELSE /\ uctx' = [uctx EXCEPT !.heartbeat_timeout = @ + 1]
                     /\ recorded' = Append(recorded, TimeoutSeen(t))
                     /\ DevChange(t, "reconnecting")
       \/ /\ Top(t).k = "CANCEL"
          /\ DevChange(t, "disconnected")
          /\ UNCHANGED <<uctx, recorded>>
       \/ /\ Top(t).k = "EXIT"
          /\ DevCancelHeartbeat(t, uctx)
          /\ stack' = [stack EXCEPT ![t] = ToReturn(t, TRUE)]
          /\ UNCHANGED <<ctxOwner, sources, events, bufFrees, elog, next_timer_id,
                         recorded>>
       \/ /\ Top(t).k \notin {"ENTRY", "TIMEOUT", "CANCEL", "EXIT"}
          /\ DevPlain(t, FALSE)
          /\ UNCHANGED <<uctx, recorded>>
    /\ UNCHANGED <<mem, own, name, current_state, states, parent, thread, tdef, tpc,
                   ncalls, mainRun, is_running, batch, freed, released, stopped>>

\* reconnecting_state_handler, lines 272-299
reconnecting_state_handler(t) ==
    /\ Running(t, "reconnecting_state_handler")
    /\ \/ /\ Top(t).k = "ENTRY"
          /\ DevSchedule(t)
          /\ UNCHANGED recorded
       \/ /\ Top(t).k = "TIMEOUT"
          /\ recorded' = Append(recorded, TimeoutSeen(t))
          /\ DevChange(t, "connecting")
       \/ /\ Top(t).k = "CANCEL"
          /\ DevChange(t, "disconnected")
          /\ UNCHANGED recorded
       \/ /\ Top(t).k \notin {"ENTRY", "TIMEOUT", "CANCEL"}
          /\ DevPlain(t, FALSE)
          /\ UNCHANGED recorded
    /\ UNCHANGED <<uctx, mem, own, name, current_state, states, parent, thread, tdef, tpc,
                   ncalls, mainRun, is_running, batch, freed, released, stopped>>

\* controller_handler, lines 336-374
controller_handler(t) ==
    /\ Running(t, "controller_handler")
    /\ DevPlain(t, \/ Top(t).k \in {"ENTRY", "RESULT_ERROR", "TIMEOUT"}
                   \/ Top(t).k = "STEP" /\ HandlerEvent(t).name = "device_status")
    /\ UNCHANGED <<uctx, recorded, mem, own, name, current_state, states, parent, thread,
                   tdef, tpc, ncalls, mainRun, is_running, batch, freed, released,
                   stopped>>

\* the timeouts that have elapsed
Elapsed == Cardinality({k \in 1..Len(tlog) : tlog[k].fired})

DeviceRuntimeStep ==
    \/ hsm_thread_func(device1)
    \/ \E t \in Threads : g_main_loop_run(t)
    \/ \E t \in Threads : DispatchIdle(t)
    \/ \E t \in Threads : \E src \in AllSources :
          Elapsed < MaxTimeouts /\ TimerDispatch(t, src)
    \/ \E t \in Threads : TimerCbPost(t)
    \/ \E t \in Threads : TimerCbRemove(t)
    \/ \E t \in Threads : ProcessPostLookup(t)
    \/ \E t \in Threads : ProcessPostBubble(t)
    \/ \E t \in Threads : ChangeStart(t)
    \/ \E t \in Threads : ChangeCommit(t)
    \/ \E t \in Threads : ChangeDone(t)

\* state "error" takes eleven timeouts to reach and no handler of it runs
NextDevice ==
    \/ DeviceMainChange
    \/ DeviceMainStart
    \/ DeviceMainRun
    \/ SchedulerConnect
    \/ \E t \in Threads : disconnected_state_handler(t)
    \/ \E t \in Threads : connecting_state_handler(t)
    \/ \E t \in Threads : connected_state_handler(t)
    \/ \E t \in Threads : reconnecting_state_handler(t)
    \/ \E t \in Threads : controller_handler(t)
    \/ \E t \in Threads : ReturnStatement(t)
    \/ DeviceRuntimeStep

SpecDevice == InitDevice /\ [][NextDevice]_vars

\* the ids of the timers connected_state_handler has armed
HeartbeatIds ==
    {recorded[i][3] : i \in {j \in 1..Len(recorded) : recorded[j][2] = "armed"}}

\* the heartbeat timers of the device that are pending
PendingHeartbeats ==
    {src \in tsources[ctx(device1)] : src.h = device1 /\ src.id \in HeartbeatIds}

\* the EXIT handler of "connected" has returned and the device has not
\* entered "connected" again
ConnectedLeft ==
    \/ current_state[device1] \notin {NULL, "disconnected", "connecting", "connected"}
    \/ /\ current_state[device1] \in {"disconnected", "connecting"}
       /\ HeartbeatIds # {}
    \/ /\ current_state[device1] = "connected"
       /\ Len(stack[device1]) > 0
       /\ Top(device1).f = "chg" /\ Top(device1).pc = "commit"

\* the handler of "connected" is handling a TIMEOUT on the worker
InHeartbeat ==
    \E i \in 1..Len(stack[device1]) :
       /\ stack[device1][i].f = "hdl" /\ stack[device1][i].s = "connected"
       /\ stack[device1][i].k = "TIMEOUT"

\* at most one heartbeat pending in "connected", none in the table after its
\* EXIT, and every TIMEOUT of a heartbeat timer was handled in "connected"
HeartbeatState ==
    /\ current_state[device1] = "connected" => Cardinality(PendingHeartbeats) <= 1
    /\ ConnectedLeft => timers[device1] \cap HeartbeatIds = {}
    /\ \A i \in 1..Len(recorded) :
          (recorded[i][2] = "TIMEOUT" /\ recorded[i][3] \in HeartbeatIds)
             => recorded[i][1] = "connected"
    /\ uctx.heartbeat_timeout <= 3

\* the device leaves "connected" for "reconnecting" only, in the TIMEOUT that
\* counted the third failure; and the TIMEOUT that counts it asks for that
\* transition
HeartbeatStep ==
    /\ (current_state[device1] = "connected" /\ current_state'[device1] # "connected")
          => /\ current_state'[device1] = "reconnecting"
             /\ uctx.heartbeat_timeout = 3
             /\ InHeartbeat
    /\ (uctx.heartbeat_timeout # 3 /\ uctx'.heartbeat_timeout = 3)
          => /\ InHeartbeat
             /\ Top(device1)' = ChangeReq(device1, device1, "reconnecting")

\* C33: in "connected" at most one heartbeat timer is pending; the device
\* leaves it for "reconnecting" exactly on the TIMEOUT that counts the third
\* failure in a row; after its EXIT no heartbeat timer is in the table and no
\* later state gets the TIMEOUT of one.
C33_DeviceHeartbeat ==
    /\ HeartbeatState
    /\ [][HeartbeatState' /\ HeartbeatStep]_vars

\* three failures in a row made the device leave "connected", and
\* "reconnecting" got the TIMEOUT of its own timer
C33_Witness ==
    /\ uctx.heartbeat_timeout = 3
    /\ \E i \in 1..Len(recorded) :
          recorded[i][1] = "reconnecting" /\ recorded[i][2] = "TIMEOUT"
    /\ timers[device1] = {}

(* ====================== several timers of a machine =================== *)

\* timer id of h fires in this step
FiredStep(h, id) ==
    \E k \in 1..Len(tlog) :
       tlog[k].h = h /\ tlog[k].id = id /\ ~tlog[k].fired /\ tlog'[k].fired

\* this step belongs to a hsm_cancel_timer(h, id) that found id in the table:
\* the call of a handler, or the main thread between its lookup and its return
CancelStep(h, id) ==
    \/ \E k \in 1..Len(tlog) :
          tlog[k].h = h /\ tlog[k].id = id /\ tlog[k].canc = "" /\ tlog'[k].canc # ""
    \/ /\ Len(stack[MainThread]) > 0
       /\ Top(MainThread).f = "cancel"
       /\ Top(MainThread).h = h /\ Top(MainThread).id = id

\* the callback of timer id of h removes id from the table in this step
CbRemoveStep(h, id) ==
    \E t \in Threads :
       /\ Len(stack[t]) > 0
       /\ Top(t).f = "tmr" /\ Top(t).pc = "remove"
       /\ Top(t).h = h /\ Top(t).id = id

\* the TIMEOUT events posted so far
TimeoutEvents == {e \in 1..Len(events) : elog[e].via = "timer"}

\* every TIMEOUT carries the id of a timer of its machine that has fired, and
\* no two carry the same
OwnTimeout ==
    /\ \A e \in TimeoutEvents :
          \E k \in 1..Len(tlog) :
             tlog[k].fired /\ tlog[k].h = elog[e].h /\ tlog[k].id = events[e].seq
    /\ \A e1, e2 \in TimeoutEvents :
          (elog[e1].h = elog[e2].h /\ events[e1].seq = events[e2].seq) => e1 = e2

\* a source is detached only by its own firing or a cancel of its id, and an
\* id leaves the table only by the callback of its timer or a cancel of it
OnlyOwnTimer ==
    /\ \A c \in Ctxs : \A src \in tsources[c] :
          src \notin tsources'[c] => FiredStep(src.h, src.id) \/ CancelStep(src.h, src.id)
    /\ \A h \in Hsms : \A id \in timers[h] :
          id \notin timers'[h] => CbRemoveStep(h, id) \/ CancelStep(h, id)

\* C34: the timers of a machine are independent: each delivers the TIMEOUT of
\* its own id, and a cancel or the firing of one timer takes only that timer
\* away, the others stay pending.
C34_TimersIndependent ==
    /\ OwnTimeout
    /\ [][OwnTimeout' /\ OnlyOwnTimer]_vars

\* two timers of one machine were pending together; one was cancelled before
\* it fired and the other has fired since
C34_Witness ==
    \E k1, k2 \in 1..Len(tlog) :
       /\ k1 # k2 /\ tlog[k1].h = tlog[k2].h
       /\ tlog[k1].canc = "before" /\ ~tlog[k1].fired
       /\ tlog[k2].fired /\ tlog[k2].canc = ""
       /\ \E e \in TimeoutEvents : events[e].seq = tlog[k2].id /\ elog[e].st = "freed"

(* ================== the state an event is dispatched in =============== *)

\* the main thread posts a new event to h; the number of the event and the
\* state h is in at that moment are recorded
LatePost(h, in) ==
    /\ MainIdle
    /\ PostNew(MainThread, h, in, <<>>)
    /\ recorded' = Append(recorded, <<Len(events) + 1, current_state[h]>>)
    /\ UNCHANGED <<uctx, mem, own, name, current_state, states, parent, thread, timers,
                   next_timer_id, tdef, tsources, tpc, tlog, mainRun,
                   is_running, batch, freed, released, stopped>>

NextLate ==
    \/ \E h \in Hsms : LatePost(h, StepInput)
    \/ \E h \in Hsms, ns \in StateNames : MainChangeState(h, ns)
    \/ \E h \in Workers : hsm_start(h)
    \/ \E h \in Hsms : hsm_run(h)
    \/ \E m \in Workers : hsm_thread_func(m)
    \/ \E t \in Threads : g_main_loop_run(t)
    \/ \E t \in Threads : LoopWait(t)
    \/ \E t \in Threads : DispatchIdle(t)
    \/ \E t \in Threads : ProcessPostLookup(t)
    \/ \E t \in Threads : ProcessPostBubble(t)
    \/ \E t \in Threads : ProcessPostFree(t)
    \/ \E t \in Threads : ChangeStart(t)
    \/ \E t \in Threads : ChangeCommit(t)
    \/ \E t \in Threads : ChangeDone(t)
    \/ \E t \in Threads, h \in Hsms, ns \in StateNames : HandlerChangeState(t, h, ns)
    \/ \E t \in Threads, b \in BOOLEAN : HandlerReturn(t, b)

SpecLate == Init /\ [][NextLate]_vars

\* thread t enters the handler of a posted event in this step
DispatchStep(t) ==
    /\ Len(stack'[t]) = Len(stack[t]) + 1
    /\ Top(t)'.f = "hdl" /\ Top(t)'.ev # 0

\* C35: the handler a posted event is handed to is that of the state that is
\* current when hsm_process_post runs, and it is passed that state's name.
C35_DispatchedInCurrent ==
    [][\A t \in Threads : DispatchStep(t) =>
          /\ Top(t)'.s = current_state[Top(t)'.h]
          /\ Top(t)'.fn = states[Top(t)'.h][current_state[Top(t)'.h]].handler]_vars

\* an event posted while its machine was in one state is in the hands of the
\* handler of another state, the one the machine has moved to since
C35_Witness ==
    \E t \in Threads : \E i \in 1..Len(recorded) :
       /\ InHandler(t) /\ Top(t).ev = recorded[i][1]
       /\ recorded[i][2] \in StateNames
       /\ Top(t).s \in StateNames \ {recorded[i][2]}
       /\ Top(t).s = current_state[Top(t).h]

(* ================ requests made before the worker starts ============== *)

\* before hsm_start(1, TRUE) the main thread asks machine 1 for a transition;
\* the request is recorded as it was made
EarlyChange(ns) ==
    /\ MainIdle /\ ~thread[1]
    /\ ncalls < MaxCalls
    /\ ncalls' = ncalls + 1
    /\ hsm_change_state(MainThread, 1, ns, <<>>)
    /\ recorded' = Append(recorded, ChangeReq(MainThread, 1, ns))
    /\ UNCHANGED <<uctx, mem, own, name, current_state, states, parent, thread, timers,
                   next_timer_id, tdef, tsources, tpc, events, bufFrees, tlog, elog,
                   mainRun, is_running, batch, freed, released, stopped>>

\* before hsm_start(1, TRUE) the main thread posts an event to machine 1
EarlyPost(in) ==
    /\ MainIdle /\ ~thread[1]
    /\ PostNew(MainThread, 1, in, <<>>)
    /\ recorded' = Append(recorded,
                          Frame("post", 1, Len(events) + 1, NULL, in.type, "lookup"))
    /\ UNCHANGED <<uctx, mem, own, name, current_state, states, parent, thread, timers,
                   next_timer_id, tdef, tsources, tpc, tlog, mainRun,
                   is_running, batch, freed, released, stopped>>

\* the worker of machine 1 and its loop
EarlyWorkerStep ==
    \/ hsm_thread_func(1)
    \/ g_main_loop_run(1)
    \/ DispatchIdle(1)
    \/ ProcessPostLookup(1)
    \/ ProcessPostBubble(1)
    \/ ProcessPostFree(1)
    \/ ChangeStart(1)
    \/ ChangeCommit(1)
    \/ ChangeDone(1)
    \/ \E b \in BOOLEAN : HandlerReturn(1, b)

NextEarly ==
    \/ \E ns \in StateNames : EarlyChange(ns)
    \/ \E in \in EventInputs : EarlyPost(in)
    \/ hsm_start(1)
    \/ EarlyWorkerStep

\* the worker is scheduled once it was spawned
SpecEarly == InitS1 /\ [][NextEarly]_vars /\ WF_vars(EarlyWorkerStep)

\* the requests the worker has taken from the queue of machine 1
Taken == Len(recorded) - Len(sources[ctx(1)])

\* the queue holds the requests made and not yet taken, in the order they
\* were made, all of them until the worker is spawned; nothing of machine 1
\* runs on the main thread
EarlyKept ==
    /\ Taken \in 0..Len(recorded)
    /\ sources[ctx(1)] = SubSeq(recorded, Taken + 1, Len(recorded))
    /\ ~thread[1] => Taken = 0
    /\ stack[MainThread] = <<>>

\* the worker takes the requests one at a time, the oldest first
EarlyOrder ==
    (stack[1] = <<>> /\ stack'[1] # <<>>) => stack'[1] = <<recorded[Taken + 1]>>

\* C36: what the main thread asks of a private-context machine before
\* hsm_start(M, TRUE) is queued, not run by the main thread; the worker, once
\* it is spawned, executes all of it in the order it was asked.
C36_EarlyRequestsKept ==
    /\ EarlyKept
    /\ [][EarlyKept' /\ EarlyOrder]_vars
    /\ thread[1] ~> (sources[ctx(1)] = <<>> /\ stack[1] = <<>>)

\* three requests were made before the worker was spawned, a transition first,
\* and the worker has executed them all
C36_Witness ==
    /\ Len(recorded) = 3 /\ recorded[1].f = "chg" /\ recorded[2].f = "post"
    /\ thread[1] /\ Taken = 3 /\ stack[1] = <<>>
    /\ current_state[1] = recorded[3].s

(* ========================= ENTRY/EXIT pairing ========================= *)

\* a handler of machine 1, having recorded its call, asks for a transition of
\* its own machine
PairChange(t, ns) ==
    /\ InHandler(t) /\ Top(t).pc = "body"
    /\ HandlerChangeState(t, 1, ns)

\* or returns
PairReturn(t) ==
    /\ InHandler(t) /\ Top(t).pc = "body"
    /\ HandlerReturn(t, TRUE)

NextPair ==
    \/ \E ns \in StateNames : MainChangeState(1, ns)
    \/ hsm_start(1)
    \/ hsm_thread_func(1)
    \/ g_main_loop_run(1)
    \/ DispatchIdle(1)
    \/ ChangeStart(1)
    \/ ChangeCommit(1)
    \/ ChangeDone(1)
    \/ S1Record(1)
    \/ \E ns \in StateNames : PairChange(1, ns)
    \/ PairReturn(1)

SpecPair == InitS1 /\ [][NextPair]_vars

\* C37: the ENTRY and EXIT calls of a machine pair up, also when handlers ask
\* for transitions themselves: an ENTRY of X is followed by the EXIT of X, an
\* EXIT by the ENTRY of another state, and once no transition is in progress
\* the machine is in the state that got the last ENTRY.
C37_EntryExitPaired ==
    /\ \A i \in 1..(Len(recorded) - 1) :
          /\ recorded[i][2] = "ENTRY" => recorded[i + 1] = <<recorded[i][1], "EXIT">>
          /\ recorded[i][2] = "EXIT" =>
                recorded[i + 1][2] = "ENTRY" /\ recorded[i + 1][1] # recorded[i][1]
    /\ (stack[1] = <<>> /\ recorded # <<>>) =>
          recorded[Len(recorded)] = <<current_state[1], "ENTRY">>

(* ===================== bubbling along parent links ==================== *)

\* the copies of one posted event the run follows
MaxChain == 4

\* the main thread sets the parent of a machine to any machine or to NULL,
\* before it posts; hsm_set_parent (lines 246-250) checks h only
ChainSetParent(h, p) ==
    /\ MainIdle
    /\ events = <<>>
    /\ parent[h] # p
    /\ hsm_set_parent(h, p)
    /\ UNCHANGED <<uctx, recorded, mem, own, name, current_state, states, thread, timers,
                   next_timer_id, ctxOwner, tdef, sources, tsources, tpc, stack,
                   events, bufFrees, ncalls, tlog, elog, mainRun,
                   is_running, batch, freed, released, stopped>>

\* the main thread puts a machine into its first state
ChainMainChange(h) ==
    /\ current_state[h] = NULL
    /\ events = <<>>
    /\ sources[ctx(h)] = <<>>
    /\ MainChangeState(h, "A")

\* and posts one event to machine 1
ChainMainPost ==
    /\ events = <<>>
    /\ MainPostEvent(1, GoInput)

\* no handler consumes anything
ChainIgnore(t) ==
    /\ InHandler(t)
    /\ HandlerReturn(t, FALSE)

\* lines 425-436, for as many copies as the run follows
ChainBubble(t) ==
    /\ Len(events) < MaxChain
    /\ ProcessPostBubble(t)

NextChain ==
    \/ \E h \in Hsms, p \in Hsms \cup {0} : ChainSetParent(h, p)
    \/ \E h \in Hsms : ChainMainChange(h)
    \/ ChainMainPost
    \/ hsm_start(1)
    \/ hsm_run(2)
    \/ hsm_thread_func(1)
    \/ \E t \in Threads : g_main_loop_run(t)
    \/ \E t \in Threads : DispatchIdle(t)
    \/ \E t \in Threads : ChangeStart(t)
    \/ \E t \in Threads : ChangeCommit(t)
    \/ \E t \in Threads : ChangeDone(t)
    \/ \E t \in Threads : ProcessPostLookup(t)
    \/ \E t \in Threads : ChainBubble(t)
    \/ \E t \in Threads : ProcessPostFree(t)
    \/ \E t \in Threads : ChainIgnore(t)

SpecChain == InitS1 /\ [][NextChain]_vars

\* the dispatches made for the posted event: itself and its copies
ChainEvents == 1..Len(events)

\* the handler calls made for it
ChainCalls == {e \in ChainEvents : elog[e].hcalls > 0}

\* C38: the dispatch of one posted event ends, whatever parents were set: the
\* parent links are followed through each machine once at most, so the event
\* and its copies are no more than there are machines, and so are the handler
\* calls made for them.
C38_DispatchTerminates ==
    /\ Len(events) <= Cardinality(Hsms)
    /\ Cardinality(ChainCalls) <= Cardinality(Hsms)

(* ================= the state name a handler is passed ================= *)

\* the main thread posts an event to machine 1
NamePost ==
    /\ Len(events) < 1
    /\ MainPostEvent(1, GoInput)

\* the handlers of SpecPair, which ask for transitions of their own machine
\* and go on, now also called for a posted event
NextName ==
    \/ NextPair
    \/ NamePost
    \/ ProcessPostLookup(1)
    \/ ProcessPostBubble(1)

SpecName == InitS1 /\ [][NextName]_vars

\* the handler calls that are running: the top of a thread's stack
RunningHandlers == {t \in Threads : InHandler(t)}

\* C39: the state name a handler was passed is not released while the handler
\* runs, whatever the handler has called before: hsm_change_state on its own
\* machine included, in the handler of a posted event and in an ENTRY handler
\* alike.
C39_StateNameValid == \A t \in RunningHandlers : ~Top(t).gone

(* ------------------------- scenario: workflow ------------------------- *)

\* src/103/example_workflow.c: one machine on the default context, driven by
\* hsm_run on the main thread
workflow == 1

\* lines 428-435 of main: the handler of every state
WorkflowHandlers ==
    [idle         |-> "idle_state_handler",
     initializing |-> "initializing_state_handler",
     loading      |-> "loading_state_handler",
     validating   |-> "validating_state_handler",
     processing   |-> "processing_state_handler",
     saving       |-> "saving_state_handler",
     cleanup      |-> "cleanup_state_handler",
     error        |-> "error_state_handler"]

\* workflow_context_new, lines 54-64, with the static variables of
\* loading_state_handler (lines 142-143) and processing_state_handler (lines
\* 263-264); data is "" for NULL
workflow_context_new ==
    [current_step |-> 0, retry_count |-> 0, max_retries |-> 3, paused |-> FALSE,
     data |-> "", timeout_timer |-> 0, success_timer |-> 0, progress |-> 0,
     progress_timer |-> 0]

\* the state after lines 422-435 of main
InitWorkflow ==
    /\ own = [h \in Hsms |-> FALSE]
    /\ name = [h \in Hsms |-> IF h = workflow THEN "workflow" ELSE "root"]
    /\ current_state = [h \in Hsms |-> NULL]
    /\ states = [h \in Hsms |->
                   IF h = workflow
                   THEN [n \in DOMAIN WorkflowHandlers |->
                            hsm_state_new(WorkflowHandlers[n], workflow)]
                   ELSE <<>>]
    /\ parent = [h \in Hsms |-> 0]
    /\ thread = [h \in Hsms |-> FALSE]
    /\ timers = [h \in Hsms |-> {}]
    /\ next_timer_id = [h \in Hsms |-> 1]
    /\ ctxOwner = [c \in Ctxs |-> NoThread]
    /\ tdef = [t \in Threads |-> NoCtx]
    /\ sources = [c \in Ctxs |-> <<>>]
    /\ tsources = [c \in Ctxs |-> {}]
    /\ tpc = [t \in Threads |-> IF t = MainThread THEN "script" ELSE "idle"]
    /\ stack = [t \in Threads |-> <<>>]
    /\ events = <<>>
    /\ bufFrees = <<>>
    /\ ncalls = 0
    /\ tlog = <<>>
    /\ elog = <<>>
    /\ mainRun = 0
    /\ is_running = [h \in Hsms |-> FALSE]
    /\ batch = [t \in Threads |-> NoBatch]
    /\ freed = {}
    /\ released = {}
    /\ stopped = [h \in Hsms |-> ""]
    /\ mem = MemInit
    /\ recorded = <<>>
    /\ uctx = workflow_context_new

\* lines 438-448 of main: hsm_change_state(workflow, "idle"), hsm_start
\* (workflow, FALSE), which does nothing, hsm_post_event of START, then
\* hsm_run(workflow)
WorkflowMain ==
    /\ MainIdle
    /\ \/ /\ ncalls = 0
          /\ ncalls' = 1
          /\ hsm_change_state(MainThread, workflow, "idle", <<>>)
          /\ UNCHANGED <<events, bufFrees, elog, tdef, tpc, mainRun>>
       \/ /\ ncalls = 1
          /\ ncalls' = 2
          /\ hsm_post_event(MainThread, workflow,
                 [type |-> "START", name |-> "workflow_start", data |-> 0,
                  source |-> "main", seq |-> 0], <<>>)
          /\ UNCHANGED <<tdef, tpc, mainRun>>
       \/ /\ ncalls = 2
          /\ stopped[workflow] = ""
          /\ hsm_run(workflow)
    /\ UNCHANGED <<uctx, recorded, mem, own, name, current_state, states, parent, thread,
                   timers, next_timer_id, tsources, tlog, is_running, batch, freed,
                   released, stopped>>

\* what no handler of the workflow changes
WfFixed ==
    <<mem, own, name, current_state, states, parent, thread, tdef, tpc, ncalls,
      mainRun, batch, freed, released>>

\* idle_state_handler, lines 79-100
idle_state_handler(t) ==
    /\ Running(t, "idle_state_handler")
    /\ \/ /\ Top(t).k = "ENTRY"
          /\ DevPlain(t, TRUE)
          /\ UNCHANGED uctx
       \/ /\ Top(t).k = "START"
          /\ uctx' = [uctx EXCEPT !.current_step = 0, !.retry_count = 0]
          /\ DevChange(t, "initializing")
       \/ /\ Top(t).k \notin {"ENTRY", "START"}
          /\ DevPlain(t, FALSE)
          /\ UNCHANGED uctx
    /\ UNCHANGED <<recorded, is_running, stopped>>
    /\ UNCHANGED WfFixed

\* initializing_state_handler, lines 105-133
initializing_state_handler(t) ==
    /\ Running(t, "initializing_state_handler")
    /\ \/ /\ Top(t).k = "ENTRY"
          /\ uctx' = [uctx EXCEPT !.current_step = 1]
          /\ DevSchedule(t)
       \/ /\ Top(t).k = "TIMEOUT"
          /\ DevChange(t, "loading")
          /\ UNCHANGED uctx
       \/ /\ Top(t).k = "CANCEL"
          /\ DevChange(t, "cleanup")
          /\ UNCHANGED uctx
       \/ /\ Top(t).k \notin {"ENTRY", "TIMEOUT", "CANCEL"}
          /\ DevPlain(t, FALSE)
          /\ UNCHANGED uctx
    /\ UNCHANGED <<recorded, is_running, stopped>>
    /\ UNCHANGED WfFixed

\* loading_state_handler, lines 168-175 and 211-218: if (timeout_timer > 0)
\* { hsm_cancel_timer(h, timeout_timer); timeout_timer = 0; } and then the
\* same for success_timer, one at a time
LoadingCancelTimers(t) ==
    /\ Running(t, "loading_state_handler")
    /\ Top(t).k \in {"RESULT_OK", "EXIT"}
    /\ uctx.timeout_timer > 0 \/ uctx.success_timer > 0
    /\ IF uctx.timeout_timer > 0
       THEN /\ hsm_cancel_timer(t, Top(t).h, uctx.timeout_timer)
            /\ uctx' = [uctx EXCEPT !.timeout_timer = 0]
       ELSE /\ hsm_cancel_timer(t, Top(t).h, uctx.success_timer)
            /\ uctx' = [uctx EXCEPT !.success_timer = 0]
    /\ UNCHANGED <<recorded, is_running, stopped, stack, ctxOwner, sources, events,
                   bufFrees, elog, next_timer_id>>
    /\ UNCHANGED WfFixed

\* loading_state_handler, lines 154-161: g_random_int_range decides whether
\* the load succeeds, and success_timer is armed when it does
LoadingRandom(t) ==
    /\ InHandler(t) /\ Top(t).fn = "loading_state_handler" /\ Top(t).pc = "rand"
    /\ \/ /\ DevSchedule(t)
          /\ uctx' = [uctx EXCEPT !.success_timer = next_timer_id'[Top(t).h]]
       \/ /\ DevPlain(t, TRUE)
          /\ UNCHANGED uctx
    /\ UNCHANGED <<recorded, is_running, stopped>>
    /\ UNCHANGED WfFixed

\* loading_state_handler, lines 138-223; the ENTRY branch goes on in
\* LoadingRandom, the RESULT_OK and EXIT branches come after
\* LoadingCancelTimers
loading_state_handler(t) ==
    /\ Running(t, "loading_state_handler")
    /\ \/ /\ Top(t).k = "ENTRY"
          /\ hsm_schedule_timer(Top(t).h)
          /\ uctx' = [uctx EXCEPT !.current_step = 2,
                                  !.timeout_timer = next_timer_id'[Top(t).h]]
          /\ recorded' = Append(recorded, <<Top(t).s, "ENTRY">>)
          /\ stack' = [stack EXCEPT ![t] = SetTop(t, [Top(t) EXCEPT !.pc = "rand"])]
          /\ UNCHANGED <<ctxOwner, sources, events, bufFrees, elog>>
       \/ /\ Top(t).k = "RESULT_OK"
          /\ uctx.timeout_timer <= 0 /\ uctx.success_timer <= 0
          /\ uctx' = [uctx EXCEPT !.data = "Sample Data [1234567890]",
                                  !.retry_count = 0]
          /\ DevChange(t, "validating")
          /\ UNCHANGED recorded
       \/ /\ Top(t).k = "TIMEOUT"
          /\ IF uctx.success_timer > 0
             THEN /\ hsm_cancel_timer(t, Top(t).h, uctx.success_timer)
                  /\ uctx' = [uctx EXCEPT !.success_timer = 0]
                  /\ hsm_post_event(t, Top(t).h,
                         [type |-> "RESULT_OK", name |-> "load_complete", data |-> 0,
                          source |-> "loader", seq |-> 0], ToReturn(t, TRUE))
                  /\ UNCHANGED next_timer_id
             ELSE IF uctx.retry_count < uctx.max_retries
             THEN /\ uctx' = [uctx EXCEPT !.retry_count = @ + 1]
                  /\ DevChange(t, "loading")
             ELSE /\ DevChange(t, "error")
                  /\ UNCHANGED uctx
          /\ UNCHANGED recorded
       \/ /\ Top(t).k = "EXIT"
          /\ uctx.timeout_timer <= 0 /\ uctx.success_timer <= 0
          /\ DevPlain(t, TRUE)
          /\ UNCHANGED <<uctx, recorded>>
       \/ /\ Top(t).k \notin {"ENTRY", "RESULT_OK", "TIMEOUT", "EXIT"}
          /\ DevPlain(t, FALSE)
          /\ UNCHANGED <<uctx, recorded>>
    /\ UNCHANGED <<is_running, stopped>>
    /\ UNCHANGED WfFixed

\* validating_state_handler, lines 228-255
validating_state_handler(t) ==
    /\ Running(t, "validating_state_handler")
    /\ \/ /\ Top(t).k = "ENTRY"
          /\ uctx' = [uctx EXCEPT !.current_step = 3]
          /\ DevSchedule(t)
       \/ /\ Top(t).k = "TIMEOUT"
          /\ DevChange(t, IF uctx.data # "" THEN "processing" ELSE "error")
          /\ UNCHANGED uctx
       \/ /\ Top(t).k \notin {"ENTRY", "TIMEOUT"}
          /\ DevPlain(t, FALSE)
          /\ UNCHANGED uctx
    /\ UNCHANGED <<recorded, is_running, stopped>>
    /\ UNCHANGED WfFixed

\* processing_state_handler, lines 260-316; no STEP event is posted in the
\* demo, so the pause and resume commands of lines 292-305 do not occur and a
\* STEP is returned FALSE for, as one without a command is
processing_state_handler(t) ==
    /\ Running(t, "processing_state_handler")
    /\ \/ /\ Top(t).k = "ENTRY"
          /\ DevSchedule(t)
          /\ uctx' = [uctx EXCEPT !.current_step = 4, !.progress = 0,
                                  !.progress_timer = next_timer_id'[Top(t).h]]
       \/ /\ Top(t).k = "TIMEOUT"
          /\ IF uctx.progress + 25 >= 100
             THEN /\ uctx' = [uctx EXCEPT !.progress = @ + 25]
                  /\ DevChange(t, "saving")
             ELSE /\ DevSchedule(t)
                  /\ uctx' = [uctx EXCEPT !.progress = @ + 25,
                                          !.progress_timer = next_timer_id'[Top(t).h]]
       \/ /\ Top(t).k = "EXIT"
          /\ IF uctx.progress_timer > 0
             THEN /\ hsm_cancel_timer(t, Top(t).h, uctx.progress_timer)
                  /\ uctx' = [uctx EXCEPT !.progress_timer = 0]
             ELSE UNCHANGED <<uctx, timers, tsources, tlog>>
          /\ stack' = [stack EXCEPT ![t] = ToReturn(t, TRUE)]
          /\ UNCHANGED <<ctxOwner, sources, events, bufFrees, elog, next_timer_id>>
       \/ /\ Top(t).k \notin {"ENTRY", "TIMEOUT", "EXIT"}
          /\ DevPlain(t, FALSE)
          /\ UNCHANGED uctx
    /\ UNCHANGED <<recorded, is_running, stopped>>
    /\ UNCHANGED WfFixed

\* saving_state_handler, lines 321-343
saving_state_handler(t) ==
    /\ Running(t, "saving_state_handler")
    /\ \/ /\ Top(t).k = "ENTRY"
          /\ uctx' = [uctx EXCEPT !.current_step = 5]
          /\ DevSchedule(t)
       \/ /\ Top(t).k = "TIMEOUT"
          /\ DevChange(t, "cleanup")
          /\ UNCHANGED uctx
       \/ /\ Top(t).k \notin {"ENTRY", "TIMEOUT"}
          /\ DevPlain(t, FALSE)
          /\ UNCHANGED uctx
    /\ UNCHANGED <<recorded, is_running, stopped>>
    /\ UNCHANGED WfFixed

\* cleanup_state_handler, lines 348-377: the TIMEOUT stops the loop
cleanup_state_handler(t) ==
    /\ Running(t, "cleanup_state_handler")
    /\ \/ /\ Top(t).k = "ENTRY"
          /\ uctx' = [uctx EXCEPT !.current_step = 6]
          /\ DevSchedule(t)
          /\ UNCHANGED <<is_running, stopped>>
       \/ /\ Top(t).k = "TIMEOUT"
          /\ hsm_stop(Top(t).h, "handler")
          /\ DevPlain(t, TRUE)
          /\ UNCHANGED uctx
       \/ /\ Top(t).k \notin {"ENTRY", "TIMEOUT"}
          /\ DevPlain(t, FALSE)
          /\ UNCHANGED <<uctx, is_running, stopped>>
    /\ UNCHANGED recorded
    /\ UNCHANGED WfFixed

\* the loop of the main thread and what it dispatches
WorkflowRuntimeStep ==
    \/ g_main_loop_run(MainThread)
    \/ \E src \in AllSources : TimerDispatch(MainThread, src)
    \/ TimerCbPost(MainThread)
    \/ TimerCbRemove(MainThread)
    \/ ProcessPostLookup(MainThread)
    \/ ProcessPostBubble(MainThread)
    \/ ChangeStart(MainThread)
    \/ ChangeCommit(MainThread)
    \/ ChangeDone(MainThread)
    \/ LoopReturn(MainThread)

\* state "error" is entered after max_retries retries of the load or on a
\* load without data, and no handler of it runs
NextWorkflow ==
    \/ WorkflowMain
    \/ idle_state_handler(MainThread)
    \/ initializing_state_handler(MainThread)
    \/ LoadingCancelTimers(MainThread)
    \/ LoadingRandom(MainThread)
    \/ loading_state_handler(MainThread)
    \/ validating_state_handler(MainThread)
    \/ processing_state_handler(MainThread)
    \/ saving_state_handler(MainThread)
    \/ cleanup_state_handler(MainThread)
    \/ ReturnStatement(MainThread)
    \/ WorkflowRuntimeStep

\* the main thread and its loop go on as long as there is something to do
SpecWorkflow == InitWorkflow /\ [][NextWorkflow]_vars /\ WF_vars(NextWorkflow)

\* the ENTRY calls "loading" has got
LoadingEntries == Len(recorded)

\* a timer of the workflow is pending
WorkflowTimerPending == \E src \in tsources[ctx(workflow)] : src.h = workflow

\* hsm_run(workflow) has returned after the handler of "cleanup" stopped the
\* loop
WorkflowRunReturned ==
    /\ current_state[workflow] = "cleanup"
    /\ stopped[workflow] = "handler"
    /\ tpc[MainThread] = "script" /\ mainRun = 0

\* C40: every retry of the load enters "loading" again, with ENTRY and a new
\* timer, so that between two dispatches the machine in "loading" has had one
\* ENTRY more than it has retried and waits for a timer; and the workflow
\* comes to a halt only with hsm_run returned after "cleanup" stopped the loop.
C40_WorkflowRetries ==
    /\ ( /\ stack[MainThread] = <<>>
         /\ current_state[workflow] = "loading" )
          => /\ LoadingEntries = uctx.retry_count + 1
             /\ WorkflowTimerPending
    /\ ( ncalls = 2 /\ ~ENABLED NextWorkflow ) => WorkflowRunReturned

====
